---- MODULE Spec2Model ----
(***************************************************************************)
(* RISC-V IOMMU DXE driver: discovery, hardware bring-up and protocol      *)
(* publication, modelled as a state machine.                               *)
(*                                                                         *)
(* The driver is single threaded.  Control is a stack of positions (pc):   *)
(* the head is the position that runs next, the tail the callers that      *)
(* resume when it returns.  The PCI-enumeration notify function runs       *)
(* nested (at TPL_CALLBACK) on top of whatever was running.                *)
(***************************************************************************)
EXTENDS Integers, Sequences, FiniteSets, TLC

VARIABLES
  Ctx,              \* mRiscVIoMmuGlobalDriverContext
  hw,               \* the IOMMU's register file, once its window is mapped
  pc,               \* control stack (sequence of positions), head runs next
  loc,              \* locals of the functions on the stack
  Status,           \* value returned by the last IoMmuCommonInitialise call
  event,            \* the protocol-notify event: "none", "registered", "closed"
  pciEnumComplete,  \* gEfiPciEnumerationCompleteProtocolGuid is installed
  installed,        \* number of installed gEdkiiIoMmuProtocolGuid instances
  mmio,             \* trace of the register accesses made so far
  heap,             \* number of pages handed out by the page allocator
  dma               \* the DMA mapping engine: the protocol call, mapping records, bounce pages

vars == <<Ctx, hw, pc, loc, Status, event, pciEnumComplete, installed, mmio, heap, dma>>

(***************************************************************************)
(* Bounds of the model.                                                    *)
(***************************************************************************)
MaxRimtNodes == 2   \* RIMT node arrays hold up to this many nodes
MaxPolls == 1       \* the reads of a wait loop are counted modulo MaxPolls + 1
MaxLog2Entries == 18 \* builds with QUEUE_NUMBER_OF_ENTRIES up to 2^MaxLog2Entries
MaxWidth == 25      \* builds with DeviceIdSupportedWidth up to MaxWidth
MaxMapCalls == 3    \* sequences of up to MaxMapCalls IoMmuMap calls

(***************************************************************************)
(* Program constants.                                                      *)
(***************************************************************************)
STATE_INIT == 0
STATE_DETECTED == 1
STATE_AVAILABLE == 2
STATE_INITIALISED == 3

V_RISCV_IOMMU_CAPABILITIES_VERSION_1_0 == 16

V_RISCV_IOMMU_DDTP_IOMMU_MODE_OFF == 0
V_RISCV_IOMMU_DDTP_IOMMU_MODE_BARE == 1
V_RISCV_IOMMU_DDTP_IOMMU_MODE_1LVL == 2
V_RISCV_IOMMU_DDTP_IOMMU_MODE_2LVL == 3
V_RISCV_IOMMU_DDTP_IOMMU_MODE_3LVL == 4

R_RISCV_IOMMU_CAPABILITIES == 0
R_RISCV_IOMMU_FCTL == 8
R_RISCV_IOMMU_DDTP == 16
R_RISCV_IOMMU_CQB == 24
R_RISCV_IOMMU_CQT == 36
R_RISCV_IOMMU_FQB == 40
R_RISCV_IOMMU_FQH == 48
R_RISCV_IOMMU_PQB == 56
R_RISCV_IOMMU_PQH == 64
R_RISCV_IOMMU_CQCSR == 72
R_RISCV_IOMMU_FQCSR == 76
R_RISCV_IOMMU_PQCSR == 80
R_RISCV_IOMMU_IPSR == 84

QUEUE_MAX_LOG_SIZE == 16
QUEUE_NUMBER_OF_ENTRIES == 128
COMMAND_QUEUE_ENTRY_SIZE == 16
FAULT_QUEUE_ENTRY_SIZE == 32
PAGE_REQUEST_QUEUE_ENTRY_SIZE == 16
SIZE_4KB == 4096

\* device_id index widths of the base and extended formats: bits covered by
\* one and by two table levels (IOMMU architecture, device-directory-table)
N_RISCV_IOMMU_DEVICE_ID_BASE_I1 == 7
N_RISCV_IOMMU_DEVICE_ID_BASE_I2 == 16
N_RISCV_IOMMU_DEVICE_ID_EXTENDED_I1 == 6
N_RISCV_IOMMU_DEVICE_ID_EXTENDED_I2 == 15

\* SATP.MODE encodings the driver compares against (RiscVImpl.h, privileged
\* architecture)
SATP_MODE_SV32 == 1
SATP_MODE_SV39 == 8
SATP_MODE_SV48 == 9
SATP_MODE_SV57 == 10
SATP_MODE_SV64 == 11

(***************************************************************************)
(* Input domains.                                                          *)
(***************************************************************************)
\* register-window base addresses a firmware table can name (4 KiB aligned)
SystemBases == {4096, 8192}
\* register-window base address found in BAR 0 of a PCI IOMMU
BarBases == {12288}
\* PCI bus/device/function values a firmware table can name
BdfValues == {8}
\* values of the 4-bit SATP.MODE field: 0 (no translation), the modes the
\* driver names and a reserved value (2)
SatpModes == {0, SATP_MODE_SV32, 2, SATP_MODE_SV39, SATP_MODE_SV48,
              SATP_MODE_SV57, SATP_MODE_SV64}

NULL == 0

\* ProgramContextRoot: the device_id width the table has to cover
DeviceIdSupportedWidth == 16

(***************************************************************************)
(* Data: register values and driver records.                               *)
(***************************************************************************)
\* RISCV_IOMMU_CAPABILITIES, the fields the driver reads
CapabilityValues ==
  [version : {V_RISCV_IOMMU_CAPABILITIES_VERSION_1_0, V_RISCV_IOMMU_CAPABILITIES_VERSION_1_0 + 1},
   Sv32 : BOOLEAN, Sv39 : BOOLEAN, Sv48 : BOOLEAN, Sv57 : BOOLEAN,
   MSI_FLAT : BOOLEAN, ATS : BOOLEAN, END : BOOLEAN]

\* a queue CSR with every bit the reset check reads clear.  The ie bit is
\* held as a bit value (0, 1, or Indeterminate after the driver's write)
CsrClear == [qen |-> FALSE, ie |-> 0, qon |-> FALSE, busy |-> FALSE]

\* queue CSR values with exactly one of the bits the reset check reads set
CsrOneBit == {[CsrClear EXCEPT ![f] = TRUE] : f \in {"qen", "qon", "busy"}} \cup
             {[CsrClear EXCEPT !.ie = 1]}

\* RISCV_IOMMU_QUEUE_BASE at reset
QueueBaseClear == [PPN |-> 0, LOG2SZ_1 |-> 0]

\* the register file of a device in its reset state
ResetDevice(caps, be) ==
  [mapped |-> TRUE, caps |-> caps,
   fctl |-> [BE |-> be, GXL |-> FALSE],
   ddtp |-> [iommu_mode |-> V_RISCV_IOMMU_DDTP_IOMMU_MODE_OFF, busy |-> FALSE, PPN |-> 0],
   cqb |-> QueueBaseClear, fqb |-> QueueBaseClear, pqb |-> QueueBaseClear,
   cqcsr |-> CsrClear, fqcsr |-> CsrClear, pqcsr |-> CsrClear,
   ipsr |-> 0]

\* a value of bits the driver writes from an uninitialised local and never
\* reads back: any value, which nothing may rely on
Indeterminate == -1

\* every paging mode is advertised
AllSv(c) == c.Sv32 /\ c.Sv39 /\ c.Sv48 /\ c.Sv57

\* capability values of the devices drawn in a non-reset state
FullCapabilities ==
  {c \in CapabilityValues : /\ AllSv(c) /\ c.ATS /\ c.END /\ ~c.MSI_FLAT
                            /\ c.version = V_RISCV_IOMMU_CAPABILITIES_VERSION_1_0}

\* capability values of the devices drawn in the reset state: every
\* combination of the paging-mode bits, and every combination of the other
\* fields on a device that advertises every paging mode
DeviceCapabilities ==
  {c \in CapabilityValues : AllSv(c) \/ c \in
     {d \in CapabilityValues : /\ d.ATS /\ d.END /\ ~d.MSI_FLAT
                               /\ d.version = V_RISCV_IOMMU_CAPABILITIES_VERSION_1_0}}

\* devices a previous boot stage left active: one reset condition is violated
ActiveDevices ==
  LET R == {ResetDevice(c, FALSE) : c \in FullCapabilities} IN
    UNION {
      {[r EXCEPT !.cqcsr = v] : v \in CsrOneBit} \cup
      {[r EXCEPT !.fqcsr = v] : v \in CsrOneBit} \cup
      {[r EXCEPT !.pqcsr = v] : v \in CsrOneBit} \cup
      {[r EXCEPT !.ddtp.busy = TRUE]} \cup
      {[r EXCEPT !.ddtp.iommu_mode = m] : m \in {V_RISCV_IOMMU_DDTP_IOMMU_MODE_BARE, V_RISCV_IOMMU_DDTP_IOMMU_MODE_1LVL}} \cup
      {[r EXCEPT !.ipsr = 1]}
      : r \in R}

\* the states the device behind the register window can be in when the driver
\* first maps it
DeviceStates ==
  {ResetDevice(c, FALSE) : c \in DeviceCapabilities} \cup
  {ResetDevice(c, TRUE) : c \in {d \in DeviceCapabilities : AllSv(d)}} \cup
  ActiveDevices

\* the register file before the window is mapped (nothing of it is visible)
Unmapped == [ResetDevice([version |-> 0, Sv32 |-> FALSE, Sv39 |-> FALSE, Sv48 |-> FALSE,
                          Sv57 |-> FALSE, MSI_FLAT |-> FALSE, ATS |-> FALSE, END |-> FALSE],
                         FALSE) EXCEPT !.mapped = FALSE]

\* QUEUE_WRAPPER / CONTEXT_WRAPPER static initialisers
DriverContextInit ==
  [DriverState |-> STATE_INIT,
   IoMmuIsPciDevice |-> FALSE,
   Address |-> 0,
   DeviceContext |-> [ContextStructIsExtended |-> FALSE, Buffer |-> NULL],
   CommandQueue |-> [EntrySize |-> COMMAND_QUEUE_ENTRY_SIZE, Buffer |-> NULL],
   FaultQueue |-> [EntrySize |-> FAULT_QUEUE_ENTRY_SIZE, Buffer |-> NULL],
   PageRequestQueue |-> [EntrySize |-> PAGE_REQUEST_QUEUE_ENTRY_SIZE, Buffer |-> NULL]]

\* locals of the functions on the stack, before any of them has run
LocalsInit ==
  [DetectStatus |-> "none",       \* DetectRiscVIoMmus: Status, while it runs
   Index |-> 0,                   \* IoMmuAcpiRimtDiscovery: Index
   NumberOfNodes |-> 0,           \* AcpiRimtTable->NumberOfNodes
   Capabilities |-> Unmapped.caps,\* InitialiseRiscVIoMmu: Capabilities
   HartIsBigEndian |-> FALSE,     \* InitialiseRiscVIoMmu: HartIsBigEndian, while live
   FeatureControl |-> Unmapped.fctl, \* InitialiseRiscVIoMmu: FeatureControl
   HartSatpMode |-> 0,            \* InitialiseRiscVIoMmu: HartSatpMode, while live
   Queue |-> "none",              \* AllocateQueue: QueueStruct
   RegValue |-> FALSE,            \* IoMmuWriteAndWait: the polled bit of RegValue
   Polls |-> 0,                   \* IoMmuWriteAndWait: reads that did not end the loop
   IoMmuMode |-> V_RISCV_IOMMU_DDTP_IOMMU_MODE_BARE, \* ProgramContextRoot: IoMmuMode
   InitStatus |-> "none",         \* IoMmuCommonInitialise: Status
   Entries |-> QUEUE_NUMBER_OF_ENTRIES, \* the QUEUE_NUMBER_OF_ENTRIES of the build
   DeviceIdSupportedWidth |-> DeviceIdSupportedWidth] \* ProgramContextRoot: the width of the build

(***************************************************************************)
(* 64-bit quantities of the mapping engine.  A UINT64 is held as a base    *)
(* and a signed offset: base 0 is the value off, base k (32, 39, 48, 57,   *)
(* 64) is the value 2^k + off.  Offsets stay far below 2^31, so the bases  *)
(* order the values; 2^64 + off with off >= 0 wraps to off.                *)
(***************************************************************************)
\* the UINT64 value 2^base + off (off alone when base = 0), modulo 2^64
U64(base, off) ==
  IF base = 64 /\ off >= 0 THEN [base |-> 0, off |-> off] ELSE [base |-> base, off |-> off]

\* x + n in UINT64, for a byte count n
U64Add(x, n) == U64(x.base, x.off + n)

\* x < y and x <= y in UINT64
U64Less(x, y) == x.base < y.base \/ (x.base = y.base /\ x.off < y.off)
U64LessEq(x, y) == x = y \/ U64Less(x, y)

\* MIN (x, y)
MIN(x, y) == IF U64Less(x, y) THEN x ELSE y

\* ALIGN_VALUE (n, SIZE_4KB) of a byte count
AlignValue(n) == ((n + SIZE_4KB - 1) \div SIZE_4KB) * SIZE_4KB

\* Address != ALIGN_VALUE (Address, SIZE_4KB): every base is a multiple of 4 KiB
IsAligned4K(x) == x.off % SIZE_4KB = 0

SIZE_4GB == U64(32, 0)

\* values of EDKII_IOMMU_OPERATION
EdkiiIoMmuOperationBusMasterRead == 0
EdkiiIoMmuOperationBusMasterWrite == 1
EdkiiIoMmuOperationBusMasterCommonBuffer == 2
EdkiiIoMmuOperationBusMasterRead64 == 3
EdkiiIoMmuOperationBusMasterWrite64 == 4
EdkiiIoMmuOperationBusMasterCommonBuffer64 == 5
EdkiiIoMmuOperationMaximum == 6

\* Operation arguments a caller can pass: every operation and the first
\* value that is none
Operations == EdkiiIoMmuOperationBusMasterRead..EdkiiIoMmuOperationMaximum

\* HostAddress arguments: NULL; aligned and unaligned buffers in low memory;
\* the last page below 4 GiB; a buffer above 4 GiB; buffers two pages below
\* 2^39, 2^48 and 2^57
HostAddresses ==
  {U64(0, NULL), U64(0, 4096), U64(0, 22528), U64(32, -4096), U64(32, 12288),
   U64(39, -8192), U64(48, -8192), U64(57, -8192)}

\* *NumberOfBytes arguments (at least one byte): half a page, one page, and
\* lengths that end a buffer two pages below a ceiling just below it, on it
\* and above it
ByteCounts == {2048, 4096, 8190, 8191, 8192}

\* which of the pointer arguments NumberOfBytes, DeviceAddress, Mapping is NULL
NullPointers == {"none", "NumberOfBytes", "DeviceAddress", "Mapping"}

\* addresses at which AllocatePool can place a MAP_INFO
PoolAddresses == {U64(0, 32768), U64(0, 40960)}

\* page-aligned addresses at which gBS->AllocatePages can place a range: in
\* low memory, just below and above 4 GiB, just below and above 2^39
PageBases == {U64(0, 1048576), U64(32, -16384), U64(32, 1048576),
              U64(39, -16384), U64(39, 1048576)}

\* error statuses gBS->AllocatePages returns when it has no range to give
AllocatePagesErrors == {"EFI_OUT_OF_RESOURCES", "EFI_NOT_FOUND"}

\* the calls of IoMmuMap: its arguments, and the SATP.MODE the hart has
\* while the call runs
MapCalls ==
  [fn : {"IoMmuMap"}, Operation : Operations, HostAddress : HostAddresses,
   NumberOfBytes : ByteCounts, NullPointer : NullPointers, HartSatpMode : SatpModes]

\* the caller's view of a call that has not returned: no status, no output
\* parameter written; NumberOfBytes is the value *NumberOfBytes has; freed
\* holds the page ranges the call has passed to gBS->FreePages
NoResult(NumberOfBytes) ==
  [Status |-> "none", written |-> {}, NumberOfBytes |-> NumberOfBytes,
   DeviceAddress |-> U64(0, NULL), Mapping |-> U64(0, NULL), freed |-> {}]

\* the pages AllocateAlignedPages and AllocatePages hand to the driver for its
\* queues and the root of its context table (PageAddress (0) .. PageAddress (3))
DriverPages == {U64(0, 65536), U64(0, 69632), U64(0, 73728), U64(0, 77824)}

\* memory content before any transfer: the caller's buffers hold the caller's
\* data, the free pages whatever they held
MemoryInit ==
  [a \in HostAddresses \cup PageBases \cup DriverPages |->
     IF a \in HostAddresses THEN "host data" ELSE "stale"]

\* the mapping engine with no call made: no MAP_INFO, no bounce pages
DmaIdle ==
  [call |-> [fn |-> "none"], out |-> NoResult(NULL), records |-> {}, pages |-> {},
   mem |-> MemoryInit]

Top == Head(pc)

\* one register access: op is "R32", "W32", "R64" or "W64"
Access(op, off) == [op |-> op, base |-> Ctx.Address, off |-> off]

\* the trace after a read made in a wait loop: the repeated reads of one
\* loop are recorded once
AppendPoll(log, a) == IF Len(log) > 0 /\ log[Len(log)] = a THEN log ELSE Append(log, a)

\* the number of reads a wait loop has made without leaving, counted modulo
\* MaxPolls + 1: the loop itself has no bound, and every read is a step
CountPoll(n) == (n + 1) % (MaxPolls + 1)

Init ==
  /\ Ctx = DriverContextInit
  /\ hw = Unmapped
  /\ pc = <<"ep_entry">>
  /\ loc = LocalsInit
  /\ Status = "none"
  /\ event = "none"
  /\ pciEnumComplete \in BOOLEAN
  /\ installed = 0
  /\ mmio = <<>>
  /\ heap = 0
  /\ dma = DmaIdle

(***************************************************************************)
(* Discovery (IoMmuDetection.c).                                           *)
(***************************************************************************)
\* a property value that a firmware table does not hold
Absent == -1

\* flattened device trees: the "reg" of the first "riscv,iommu" node (base
\* address and size) and of the first "riscv,pci-iommu" node (BDF), if present
DeviceTrees ==
  [system : SystemBases \cup {Absent}, NumberOfBytes : {SIZE_4KB, 2 * SIZE_4KB},
   pci : BdfValues \cup {Absent}]

\* RIMT nodes: an IOMMU node (PCIe device or platform device) or another type
RimtNodes ==
  [Type : {"RISCV_IOMMU_NODE_TYPE"}, PcieDevice : {TRUE}, BaseAddress : {0}, PcieBdf : BdfValues] \cup
  [Type : {"RISCV_IOMMU_NODE_TYPE"}, PcieDevice : {FALSE}, BaseAddress : SystemBases, PcieBdf : {0}] \cup
  [Type : {"PCIE_ROOT_COMPLEX_NODE_TYPE"}, PcieDevice : {FALSE}, BaseAddress : {0}, PcieBdf : {0}]

\* EfiCreateProtocolNotifyEvent signals the new event once, so the notify
\* function runs nested at registration; afterwards it runs when the
\* protocol is installed
RunNotify(stack) == <<"cb_entry">> \o stack

\* A "riscv,iommu" node was found: adopt the system IOMMU
AdoptDeviceTreeSystem(fdt) ==
  /\ Ctx' = [Ctx EXCEPT !.DriverState = STATE_AVAILABLE,
                         !.IoMmuIsPciDevice = FALSE,
                         !.Address = fdt.system]
  /\ pc' = IF fdt.NumberOfBytes = SIZE_4KB THEN <<"ep_check">> ELSE <<"aborted">>
  /\ UNCHANGED event

\* A "riscv,pci-iommu" node was found: record the BDF, register the callback
AdoptDeviceTreePci(fdt) ==
  /\ Ctx' = [Ctx EXCEPT !.DriverState = STATE_DETECTED,
                         !.IoMmuIsPciDevice = TRUE,
                         !.Address = fdt.pci]
  /\ event' = "registered"
  /\ pc' = RunNotify(<<"ep_check">>)

\* DetectRiscVIoMmus, first half, with IoMmuDeviceTreeDiscovery
DetectDeviceTree ==
  /\ Top = "ep_entry"
  /\ \E platformHasDeviceTree \in BOOLEAN, fdt \in DeviceTrees :
       IF ~platformHasDeviceTree
         THEN /\ loc' = [loc EXCEPT !.DetectStatus = "EFI_NOT_FOUND"]
              /\ pc' = <<"detect_acpi">>
              /\ UNCHANGED <<Ctx, event>>
         ELSE IF fdt.system # Absent
           THEN /\ AdoptDeviceTreeSystem(fdt)
                /\ UNCHANGED loc
           ELSE IF fdt.pci # Absent
             THEN /\ AdoptDeviceTreePci(fdt)
                  /\ UNCHANGED loc
             ELSE /\ loc' = [loc EXCEPT !.DetectStatus = "EFI_NOT_FOUND"]
                  /\ pc' = <<"detect_acpi">>
                  /\ UNCHANGED <<Ctx, event>>
  /\ UNCHANGED <<hw, Status, pciEnumComplete, installed, mmio, heap, dma>>

\* DetectRiscVIoMmus, second half, up to the node loop of IoMmuAcpiRimtDiscovery
DetectAcpiRimt ==
  /\ Top = "detect_acpi"
  /\ \E platformHasAcpi \in BOOLEAN, hasRimt \in BOOLEAN, n \in 0..MaxRimtNodes :
       IF platformHasAcpi /\ hasRimt
         THEN /\ loc' = [loc EXCEPT !.Index = 0, !.NumberOfNodes = n]
              /\ pc' = <<"acpi_loop">>
         ELSE /\ UNCHANGED loc
              /\ pc' = <<"ep_check">>
  /\ UNCHANGED <<Ctx, hw, Status, event, pciEnumComplete, installed, mmio, heap, dma>>

\* the body of the node loop for one node
RimtNodeUpdate(node) ==
  IF node.Type = "RISCV_IOMMU_NODE_TYPE"
    THEN IF node.PcieDevice
      THEN [Ctx EXCEPT !.DriverState = STATE_DETECTED,
                       !.IoMmuIsPciDevice = TRUE,
                       !.Address = node.PcieBdf]
      ELSE [Ctx EXCEPT !.DriverState = STATE_AVAILABLE,
                       !.IoMmuIsPciDevice = FALSE,
                       !.Address = node.BaseAddress]
    ELSE Ctx

\* IoMmuAcpiRimtDiscovery: one iteration of the node loop
AcpiRimtNode ==
  /\ Top = "acpi_loop"
  /\ loc.Index < loc.NumberOfNodes
  /\ \E node \in RimtNodes : Ctx' = RimtNodeUpdate(node)
  /\ loc' = [loc EXCEPT !.Index = @ + 1]
  /\ UNCHANGED <<hw, pc, Status, event, pciEnumComplete, installed, mmio, heap, dma>>

\* IoMmuAcpiRimtDiscovery: the loop ends, the function returns EFI_NOT_FOUND
AcpiRimtEnd ==
  /\ Top = "acpi_loop"
  /\ loc.Index >= loc.NumberOfNodes
  /\ loc' = [loc EXCEPT !.DetectStatus = "none", !.Index = 0, !.NumberOfNodes = 0]
  /\ pc' = <<"ep_check">>
  /\ UNCHANGED <<Ctx, hw, Status, event, pciEnumComplete, installed, mmio, heap, dma>>

\* mutation of NoUsableIoMmu: a detected PCI IOMMU counts as usable
NoUsableIoMmuDetectedOnly == Ctx.DriverState < STATE_DETECTED

\* RiscVIoMmuDxeEntryPoint: the guard of the early return
NoUsableIoMmu == Ctx.DriverState < STATE_AVAILABLE

\* RiscVIoMmuDxeEntryPoint after DetectRiscVIoMmus returned
EntryPointCheck ==
  /\ Top = "ep_check"
  /\ IF NoUsableIoMmu
       THEN pc' = <<"ep_done">>
       ELSE pc' = <<"ci_entry", "ep_done">>
  /\ UNCHANGED <<Ctx, hw, loc, Status, event, pciEnumComplete, installed, mmio, heap, dma>>

\* The PCI bus driver installs gEfiPciEnumerationCompleteProtocolGuid; a
\* registered notify function is run
PciBusEnumerationCompletes ==
  /\ Top = "ep_done"
  /\ ~pciEnumComplete
  /\ pciEnumComplete' = TRUE
  /\ pc' = IF event = "registered" THEN RunNotify(pc) ELSE pc
  /\ UNCHANGED <<Ctx, hw, loc, Status, event, installed, mmio, heap, dma>>

\* OnPciEnumerationComplete up to the call of IoMmuCommonInitialise
OnPciEnumerationComplete ==
  /\ Top = "cb_entry"
  /\ IF ~pciEnumComplete
       THEN /\ pc' = Tail(pc)
            /\ UNCHANGED <<Ctx, event>>
       ELSE \E found \in BOOLEAN, bar \in BarBases, AddrLen \in {SIZE_4KB, 2 * SIZE_4KB} :
              IF found
                THEN /\ Ctx' = [Ctx EXCEPT !.DriverState = STATE_AVAILABLE, !.Address = bar]
                     /\ pc' = IF AddrLen = SIZE_4KB
                                THEN <<"ci_entry", "cb_close">> \o Tail(pc)
                                ELSE <<"aborted">>
                     /\ UNCHANGED event
                ELSE /\ pc' = <<"cb_close">> \o Tail(pc)
                     /\ UNCHANGED <<Ctx, event>>
  /\ UNCHANGED <<hw, loc, Status, pciEnumComplete, installed, mmio, heap, dma>>

\* OnPciEnumerationComplete: FreePool, CloseEvent, return
OnPciEnumerationCompleteClose ==
  /\ Top = "cb_close"
  /\ event' = "closed"
  /\ pc' = Tail(pc)
  /\ UNCHANGED <<Ctx, hw, loc, Status, pciEnumComplete, installed, mmio, heap, dma>>

(***************************************************************************)
(* Initialisation (RiscVIoMmuDxe.c).                                       *)
(***************************************************************************)
\* mutation of AlreadyInitialised: the comparison is strict
AlreadyInitialisedStrict == Ctx.DriverState > STATE_INITIALISED

\* IoMmuCommonInitialise: the guard of the early return
AlreadyInitialised == Ctx.DriverState >= STATE_INITIALISED

\* IoMmuCommonInitialise up to the call of InitialiseRiscVIoMmu.  Mapping the
\* register window (SetMemoryAttributes) is what makes the device behind
\* Ctx.Address visible: its state is drawn here.
IoMmuCommonInitialise ==
  /\ Top = "ci_entry"
  /\ IF AlreadyInitialised
       THEN /\ Status' = "EFI_SUCCESS"
            /\ pc' = Tail(pc)
            /\ UNCHANGED <<Ctx, hw>>
       ELSE /\ Ctx' = [Ctx EXCEPT !.DriverState = STATE_INITIALISED]
            /\ \E dev \in DeviceStates : hw' = IF hw.mapped THEN hw ELSE dev
            /\ pc' = <<"init_reset">> \o Tail(pc)
            /\ UNCHANGED Status
  /\ UNCHANGED <<loc, event, pciEnumComplete, installed, mmio, heap, dma>>

\* one queue CSR passes the reset check
CsrIsReset(csr) == ~(csr.qen \/ csr.ie # 0 \/ csr.qon \/ csr.busy)

\* mutation of IoMmuIsReset: the fault-queue CSR is checked twice, the
\* page-request queue CSR never
IoMmuIsResetSkipsPq(h) ==
  /\ CsrIsReset(h.cqcsr)
  /\ CsrIsReset(h.fqcsr)
  /\ CsrIsReset(h.fqcsr)
  /\ ~h.ddtp.busy
  /\ h.ipsr = 0
  /\ h.ddtp.iommu_mode = V_RISCV_IOMMU_DDTP_IOMMU_MODE_OFF

\* IoMmuIsReset: the value returned for register file h
IoMmuIsReset(h) ==
  /\ CsrIsReset(h.cqcsr)
  /\ CsrIsReset(h.fqcsr)
  /\ CsrIsReset(h.pqcsr)
  /\ ~h.ddtp.busy
  /\ h.ipsr = 0
  /\ h.ddtp.iommu_mode = V_RISCV_IOMMU_DDTP_IOMMU_MODE_OFF

\* IoMmuIsReset: the registers it reads, in order, up to the one that makes
\* it return
IoMmuIsResetReads(h) ==
  <<Access("R32", R_RISCV_IOMMU_CQCSR)>> \o
  (IF ~CsrIsReset(h.cqcsr) THEN <<>> ELSE
   <<Access("R32", R_RISCV_IOMMU_FQCSR)>> \o
   (IF ~CsrIsReset(h.fqcsr) THEN <<>> ELSE
    <<Access("R32", R_RISCV_IOMMU_PQCSR)>> \o
    (IF ~CsrIsReset(h.pqcsr) THEN <<>> ELSE
     <<Access("R64", R_RISCV_IOMMU_DDTP)>> \o
     (IF h.ddtp.busy THEN <<>> ELSE
      <<Access("R32", R_RISCV_IOMMU_IPSR)>>))))

\* InitialiseRiscVIoMmu: ASSERT (IoMmuIsReset ())
AssertIsReset ==
  /\ Top = "init_reset"
  /\ mmio' = mmio \o IoMmuIsResetReads(hw)
  /\ pc' = IF IoMmuIsReset(hw) THEN <<"init_version">> \o Tail(pc) ELSE <<"aborted">>
  /\ UNCHANGED <<Ctx, hw, loc, Status, event, pciEnumComplete, installed, heap, dma>>

\* the architectural version check
VersionIsSupported(caps) == caps.version = V_RISCV_IOMMU_CAPABILITIES_VERSION_1_0

\* InitialiseRiscVIoMmu steps 1-2: read the capabilities, check the version
CheckVersion ==
  /\ Top = "init_version"
  /\ mmio' = Append(mmio, Access("R64", R_RISCV_IOMMU_CAPABILITIES))
  /\ IF VersionIsSupported(hw.caps)
       THEN /\ loc' = [loc EXCEPT !.Capabilities = hw.caps]
            /\ pc' = <<"init_endian">> \o Tail(pc)
       ELSE /\ pc' = <<"ci_return">> \o Tail(pc)
            /\ loc' = [loc EXCEPT !.Capabilities = hw.caps, !.InitStatus = "EFI_UNSUPPORTED"]
  /\ UNCHANGED <<Ctx, hw, Status, event, pciEnumComplete, installed, heap, dma>>

\* mutation of EndiannessUnsupported: the hart's endianness is not consulted
EndiannessUnsupportedAnyHart(HartIsBigEndian, fctl, caps) ==
  ~fctl.BE /\ ~caps.END

\* the hart is big-endian and the IOMMU is neither big-endian nor switchable
EndiannessUnsupported(HartIsBigEndian, fctl, caps) ==
  HartIsBigEndian /\ ~fctl.BE /\ ~caps.END

\* the IOMMU has to be switched to big-endian, and can be
EndiannessSwitch(HartIsBigEndian, fctl, caps) ==
  HartIsBigEndian /\ ~fctl.BE /\ caps.END

\* InitialiseRiscVIoMmu steps 3-5: endianness.  The hart's endianness is
\* read from SSTATUS.
NegotiateEndianness ==
  /\ Top = "init_endian"
  /\ \E ube \in BOOLEAN :
       LET fctl == hw.fctl
           caps == loc.Capabilities IN
       IF EndiannessUnsupported(ube, fctl, caps)
         THEN /\ mmio' = Append(mmio, Access("R32", R_RISCV_IOMMU_FCTL))
              /\ pc' = <<"ci_return">> \o Tail(pc)
              /\ loc' = [loc EXCEPT !.HartIsBigEndian = ube, !.FeatureControl = fctl,
                                     !.InitStatus = "EFI_UNSUPPORTED"]
              /\ UNCHANGED hw
         ELSE IF EndiannessSwitch(ube, fctl, caps)
           THEN /\ mmio' = mmio \o <<Access("R32", R_RISCV_IOMMU_FCTL),
                                      Access("W32", R_RISCV_IOMMU_FCTL)>>
                /\ hw' = [hw EXCEPT !.fctl.BE = TRUE]
                /\ loc' = [loc EXCEPT !.HartIsBigEndian = ube,
                                       !.FeatureControl = [fctl EXCEPT !.BE = TRUE]]
                /\ pc' = <<"init_paging">> \o Tail(pc)
           ELSE /\ mmio' = Append(mmio, Access("R32", R_RISCV_IOMMU_FCTL))
                /\ loc' = [loc EXCEPT !.HartIsBigEndian = ube, !.FeatureControl = fctl]
                /\ pc' = <<"init_paging">> \o Tail(pc)
                /\ UNCHANGED hw
  /\ UNCHANGED <<Ctx, Status, event, pciEnumComplete, installed, heap, dma>>

\* mutation of PagingModeUnsupported: Sv48 is checked against the Sv39 bit
PagingModeUnsupportedWrongBit(HartSatpMode, caps) ==
  \/ HartSatpMode = SATP_MODE_SV64
  \/ (HartSatpMode = SATP_MODE_SV57 /\ ~caps.Sv57)
  \/ (HartSatpMode = SATP_MODE_SV48 /\ ~caps.Sv39)
  \/ (HartSatpMode = SATP_MODE_SV39 /\ ~caps.Sv39)
  \/ (HartSatpMode = SATP_MODE_SV32 /\ ~caps.Sv32)

\* the hart's paging mode cannot be served by the IOMMU
PagingModeUnsupported(HartSatpMode, caps) ==
  \/ HartSatpMode = SATP_MODE_SV64
  \/ (HartSatpMode = SATP_MODE_SV57 /\ ~caps.Sv57)
  \/ (HartSatpMode = SATP_MODE_SV48 /\ ~caps.Sv48)
  \/ (HartSatpMode = SATP_MODE_SV39 /\ ~caps.Sv39)
  \/ (HartSatpMode = SATP_MODE_SV32 /\ ~caps.Sv32)

\* the GXL bit written for the hart's paging mode
GxlFor(HartSatpMode) == HartSatpMode = SATP_MODE_SV32

\* InitialiseRiscVIoMmu step 8: paging mode.  The hart's mode is read from
\* SATP.
NegotiatePagingMode ==
  /\ Top = "init_paging"
  /\ \E mode \in SatpModes :
       IF PagingModeUnsupported(mode, loc.Capabilities)
         THEN /\ pc' = <<"ci_return">> \o Tail(pc)
              /\ loc' = [loc EXCEPT !.HartSatpMode = mode, !.HartIsBigEndian = FALSE,
                                     !.InitStatus = "EFI_UNSUPPORTED"]
              /\ UNCHANGED <<hw, mmio>>
         ELSE /\ loc' = [loc EXCEPT !.HartSatpMode = mode, !.HartIsBigEndian = FALSE,
                                     !.FeatureControl.GXL = GxlFor(mode),
                                     !.Queue = "CommandQueue"]
              /\ hw' = [hw EXCEPT !.fctl = [BE |-> loc.FeatureControl.BE, GXL |-> GxlFor(mode)]]
              /\ mmio' = Append(mmio, Access("W32", R_RISCV_IOMMU_FCTL))
              /\ pc' = <<"aq_program">> \o Tail(pc)
  /\ UNCHANGED <<Ctx, Status, event, pciEnumComplete, installed, heap, dma>>

(***************************************************************************)
(* Queues (AllocateQueue) and the write-and-wait primitives.               *)
(***************************************************************************)
\* AllocatePages / AllocateAlignedPages: the address returned when inUse pages
\* are in use (the pool starts at page 16, above the register windows)
PageAddress(inUse) == (16 + inUse) * SIZE_4KB

\* bits of an address above the page offset
Ppn(address) == address \div SIZE_4KB

\* HighBitSet32: index of the highest bit set, -1 for 0
HighBitSet32(n) ==
  IF n = 0 THEN -1 ELSE CHOOSE k \in 0..31 : 2^k <= n /\ n < 2^(k + 1)

\* EFI_SIZE_TO_PAGES
EfiSizeToPages(bytes) == (bytes + SIZE_4KB - 1) \div SIZE_4KB

\* mutation of QueueSizeAsserts: the size limit is off by one
QueueSizeAssertsOffByOne(entries) ==
  /\ (entries # 0) /\ (entries % 2 = 0)
  /\ LET Log2Size == HighBitSet32(entries) IN
       Log2Size >= 1 /\ Log2Size - 1 <= QUEUE_MAX_LOG_SIZE

\* AllocateQueue: the two assertions on the configured entry count
QueueSizeAsserts(entries) ==
  /\ (entries # 0) /\ (entries % 2 = 0)
  /\ LET Log2Size == HighBitSet32(entries) IN
       \* Log2Size is a UINTN: Log2Size - 1 wraps to a huge value below 1
       Log2Size >= 1 /\ Log2Size - 1 < QUEUE_MAX_LOG_SIZE

\* AllocateQueue: the registers of each queue and its fields in the model
QueueRegs(q) ==
  CASE q = "CommandQueue" ->
         [base |-> R_RISCV_IOMMU_CQB, headtail |-> R_RISCV_IOMMU_CQT,
          csr |-> R_RISCV_IOMMU_CQCSR, b |-> "cqb", c |-> "cqcsr"]
    [] q = "FaultQueue" ->
         [base |-> R_RISCV_IOMMU_FQB, headtail |-> R_RISCV_IOMMU_FQH,
          csr |-> R_RISCV_IOMMU_FQCSR, b |-> "fqb", c |-> "fqcsr"]
    [] q = "PageRequestQueue" ->
         [base |-> R_RISCV_IOMMU_PQB, headtail |-> R_RISCV_IOMMU_PQH,
          csr |-> R_RISCV_IOMMU_PQCSR, b |-> "pqb", c |-> "pqcsr"]

\* mutation of WaitCondition: the sense of the test is inverted
WaitConditionInverted(Set, bit) == (Set /\ bit) \/ (~Set /\ ~bit)

\* IoMmuWriteAndWait32/64: the condition of the wait loop, for the masked
\* bit of RegValue
WaitCondition(Set, bit) == (Set /\ ~bit) \/ (~Set /\ bit)

\* mutation of AfterQueue: the page-request queue is programmed whatever
\* the ATS capability
AfterQueueIgnoresAts(q, caps) ==
  CASE q = "CommandQueue" -> [pc |-> "aq_program", Queue |-> "FaultQueue"]
    [] q = "FaultQueue" -> [pc |-> "aq_program", Queue |-> "PageRequestQueue"]
    [] q = "PageRequestQueue" -> [pc |-> "pcr_entry", Queue |-> "none"]

\* InitialiseRiscVIoMmu steps 12-15: what runs after AllocateQueue (q) returns
AfterQueue(q, caps) ==
  CASE q = "CommandQueue" -> [pc |-> "aq_program", Queue |-> "FaultQueue"]
    [] q = "FaultQueue" -> IF caps.ATS
                             THEN [pc |-> "aq_program", Queue |-> "PageRequestQueue"]
                             ELSE [pc |-> "pcr_entry", Queue |-> "none"]
    [] q = "PageRequestQueue" -> [pc |-> "pcr_entry", Queue |-> "none"]

\* AllocateQueue up to the first test of the wait loop.  The CSR value
\* written has only qen assigned: its other bits (ie, qon among them) are
\* whatever the uninitialised local holds.
AllocateQueue ==
  /\ Top = "aq_program"
  /\ LET q == loc.Queue
         r == QueueRegs(q)
         Log2Size == HighBitSet32(loc.Entries)
         NumberOfPages == EfiSizeToPages(loc.Entries * Ctx[q].EntrySize)
         Buffer == PageAddress(heap)
         next == AfterQueue(q, loc.Capabilities) IN
     IF ~QueueSizeAsserts(loc.Entries)
       THEN /\ pc' = <<"aborted">>
            /\ UNCHANGED <<Ctx, hw, loc, mmio, heap, dma>>
       ELSE \E allocated \in BOOLEAN, junkQon \in BOOLEAN :
              IF ~allocated
                THEN /\ pc' = <<"aborted">>
                     /\ UNCHANGED <<Ctx, hw, loc, mmio, heap, dma>>
                ELSE /\ Ctx' = [Ctx EXCEPT ![q].Buffer = Buffer]
                     /\ heap' = heap + NumberOfPages /\ UNCHANGED dma
                     /\ hw' = [hw EXCEPT ![r.b] = [PPN |-> Ppn(Buffer), LOG2SZ_1 |-> Log2Size - 1],
                                          ![r.c].qen = TRUE,
                                          ![r.c].ie = Indeterminate]
                     /\ mmio' = mmio \o <<Access("W64", r.base), Access("W32", r.headtail),
                                            Access("W32", r.csr)>>
                     /\ IF ~WaitCondition(TRUE, junkQon)
                          THEN /\ loc' = [loc EXCEPT !.RegValue = TRUE, !.Polls = 0,
                                                     !.Queue = next.Queue,
                                                     !.HartSatpMode = 0]
                               /\ pc' = <<next.pc>> \o Tail(pc)
                          ELSE /\ loc' = [loc EXCEPT !.RegValue = FALSE, !.Polls = 0,
                                                     !.HartSatpMode = 0]
                               /\ pc' = <<"aq_wait">> \o Tail(pc)
  /\ UNCHANGED <<Status, event, pciEnumComplete, installed>>

\* IoMmuWriteAndWait32 for a queue CSR: one iteration of the wait loop.  The
\* device decides whether the read shows qon.
AllocateQueueWait ==
  /\ Top = "aq_wait"
  /\ LET q == loc.Queue
         r == QueueRegs(q)
         next == AfterQueue(q, loc.Capabilities) IN
     \E qon \in BOOLEAN :
       /\ mmio' = AppendPoll(mmio, Access("R32", r.csr))
       /\ hw' = [hw EXCEPT ![r.c].qon = qon]
       /\ IF ~WaitCondition(TRUE, qon)
            THEN /\ loc' = [loc EXCEPT !.RegValue = TRUE, !.Polls = 0, !.Queue = next.Queue]
                 /\ pc' = <<next.pc>> \o Tail(pc)
            ELSE /\ loc' = [loc EXCEPT !.Polls = CountPoll(@)]
                 /\ UNCHANGED pc
  /\ UNCHANGED <<Ctx, Status, event, pciEnumComplete, installed, heap, dma>>

(***************************************************************************)
(* Device-context table root (ProgramContextRoot).                         *)
(***************************************************************************)
\* mutation of SelectIoMmuMode: the comparisons are strict
SelectIoMmuModeStrict(W, extended) ==
  LET OneLevelMaxWidth == IF extended THEN N_RISCV_IOMMU_DEVICE_ID_EXTENDED_I1
                                      ELSE N_RISCV_IOMMU_DEVICE_ID_BASE_I1
      TwoLevelMaxWidth == IF extended THEN N_RISCV_IOMMU_DEVICE_ID_EXTENDED_I2
                                      ELSE N_RISCV_IOMMU_DEVICE_ID_BASE_I2 IN
  IF W < OneLevelMaxWidth THEN V_RISCV_IOMMU_DDTP_IOMMU_MODE_1LVL
  ELSE IF W < TwoLevelMaxWidth THEN V_RISCV_IOMMU_DDTP_IOMMU_MODE_2LVL
  ELSE IF W < 24 THEN V_RISCV_IOMMU_DDTP_IOMMU_MODE_3LVL
  ELSE V_RISCV_IOMMU_DDTP_IOMMU_MODE_BARE

\* ProgramContextRoot: the mode chosen for device_id width W and the
\* context-structure format
SelectIoMmuMode(W, extended) ==
  LET OneLevelMaxWidth == IF extended THEN N_RISCV_IOMMU_DEVICE_ID_EXTENDED_I1
                                      ELSE N_RISCV_IOMMU_DEVICE_ID_BASE_I1
      TwoLevelMaxWidth == IF extended THEN N_RISCV_IOMMU_DEVICE_ID_EXTENDED_I2
                                      ELSE N_RISCV_IOMMU_DEVICE_ID_BASE_I2 IN
  IF W <= OneLevelMaxWidth THEN V_RISCV_IOMMU_DDTP_IOMMU_MODE_1LVL
  ELSE IF W <= TwoLevelMaxWidth THEN V_RISCV_IOMMU_DDTP_IOMMU_MODE_2LVL
  ELSE IF W <= 24 THEN V_RISCV_IOMMU_DDTP_IOMMU_MODE_3LVL
  ELSE V_RISCV_IOMMU_DDTP_IOMMU_MODE_BARE

\* ProgramContextRoot up to the first test of the first wait loop.  The root
\* page is cleared with ZeroMem.  The DDTP
\* value written has only iommu_mode assigned: busy and PPN are whatever the
\* uninitialised local holds.  The device either takes the mode or keeps
\* the mode it had.
ProgramContextRoot ==
  /\ Top = "pcr_entry"
  /\ LET extended == hw.caps.MSI_FLAT
         Buffer == PageAddress(heap)
         IoMmuMode == SelectIoMmuMode(loc.DeviceIdSupportedWidth, extended) IN
     \E allocated \in BOOLEAN, junkBusy \in BOOLEAN, taken \in BOOLEAN, busy \in BOOLEAN :
       IF ~allocated
         THEN /\ Ctx' = [Ctx EXCEPT !.DeviceContext.ContextStructIsExtended = extended]
              /\ mmio' = Append(mmio, Access("R64", R_RISCV_IOMMU_CAPABILITIES))
              /\ pc' = <<"aborted">>
              /\ UNCHANGED <<hw, loc, heap, dma>>
         ELSE /\ Ctx' = [Ctx EXCEPT !.DeviceContext.ContextStructIsExtended = extended,
                                     !.DeviceContext.Buffer = Buffer]
              /\ heap' = heap + 1
              /\ dma' = [dma EXCEPT !.mem[U64(0, Buffer)] = "zero"]
              /\ hw' = [hw EXCEPT !.ddtp = [iommu_mode |-> IF taken THEN IoMmuMode ELSE @.iommu_mode,
                                            busy |-> busy,
                                            PPN |-> Indeterminate]]
              /\ mmio' = mmio \o <<Access("R64", R_RISCV_IOMMU_CAPABILITIES),
                                     Access("W64", R_RISCV_IOMMU_DDTP)>>
              /\ loc' = [loc EXCEPT !.IoMmuMode = IoMmuMode, !.RegValue = junkBusy, !.Polls = 0]
              /\ pc' = <<IF WaitCondition(FALSE, junkBusy) THEN "pcr_wait" ELSE "pcr_readback">> \o Tail(pc)
  /\ UNCHANGED <<Status, event, pciEnumComplete, installed>>

\* IoMmuWriteAndWait64 for DDTP: one iteration of the wait loop of the
\* speculative write.  The device decides whether the read still shows busy.
ProgramContextRootWait ==
  /\ Top = "pcr_wait"
  /\ \E busy \in (IF hw.ddtp.busy THEN BOOLEAN ELSE {FALSE}) :
       /\ mmio' = AppendPoll(mmio, Access("R64", R_RISCV_IOMMU_DDTP))
       /\ hw' = [hw EXCEPT !.ddtp.busy = busy]
       /\ IF WaitCondition(FALSE, busy)
            THEN /\ loc' = [loc EXCEPT !.Polls = CountPoll(@)]
                 /\ UNCHANGED pc
            ELSE /\ loc' = [loc EXCEPT !.RegValue = FALSE, !.Polls = 0]
                 /\ pc' = <<"pcr_readback">> \o Tail(pc)
  /\ UNCHANGED <<Ctx, Status, event, pciEnumComplete, installed, heap, dma>>

\* mutation of ModeRejected: the read-back is not compared
ModeRejectedNever(readMode, IoMmuMode) == FALSE

\* ProgramContextRoot: the read-back mode is not the one written
ModeRejected(readMode, IoMmuMode) == readMode # IoMmuMode

\* ProgramContextRoot from the read-back of DDTP to the first test of the
\* second wait loop.  The value written back is the value read with the
\* mode and the root's page number assigned, so its busy bit is the one read.
ProgramContextRootReadBack ==
  /\ Top = "pcr_readback"
  /\ \E read \in (IF hw.ddtp.busy THEN BOOLEAN ELSE {FALSE}), busy \in BOOLEAN :
       IF ModeRejected(hw.ddtp.iommu_mode, loc.IoMmuMode)
         THEN /\ mmio' = Append(mmio, Access("R64", R_RISCV_IOMMU_DDTP))
              /\ hw' = [hw EXCEPT !.ddtp.busy = read]
              /\ loc' = [loc EXCEPT !.InitStatus = "EFI_UNSUPPORTED"]
              /\ pc' = <<"ci_return">> \o Tail(pc)
         ELSE /\ mmio' = mmio \o <<Access("R64", R_RISCV_IOMMU_DDTP),
                                     Access("W64", R_RISCV_IOMMU_DDTP)>>
              /\ hw' = [hw EXCEPT !.ddtp = [iommu_mode |-> loc.IoMmuMode,
                                            busy |-> busy,
                                            PPN |-> Ppn(Ctx.DeviceContext.Buffer)]]
              /\ IF WaitCondition(FALSE, read)
                   THEN /\ loc' = [loc EXCEPT !.RegValue = TRUE, !.Polls = 0]
                        /\ pc' = <<"pcr_wait_root">> \o Tail(pc)
                   ELSE /\ loc' = [loc EXCEPT !.RegValue = FALSE, !.Polls = 0,
                                               !.InitStatus = "EFI_SUCCESS"]
                        /\ pc' = <<"ci_return">> \o Tail(pc)
  /\ UNCHANGED <<Ctx, Status, event, pciEnumComplete, installed, heap, dma>>

\* IoMmuWriteAndWait64 for DDTP: one iteration of the wait loop of the write
\* of the root, then ProgramContextRoot and InitialiseRiscVIoMmu return
ProgramContextRootWaitRoot ==
  /\ Top = "pcr_wait_root"
  /\ \E busy \in (IF hw.ddtp.busy THEN BOOLEAN ELSE {FALSE}) :
       /\ mmio' = AppendPoll(mmio, Access("R64", R_RISCV_IOMMU_DDTP))
       /\ hw' = [hw EXCEPT !.ddtp.busy = busy]
       /\ IF WaitCondition(FALSE, busy)
            THEN /\ loc' = [loc EXCEPT !.Polls = CountPoll(@)]
                 /\ UNCHANGED pc
            ELSE /\ loc' = [loc EXCEPT !.RegValue = FALSE, !.Polls = 0,
                                        !.InitStatus = "EFI_SUCCESS"]
                 /\ pc' = <<"ci_return">> \o Tail(pc)
  /\ UNCHANGED <<Ctx, Status, event, pciEnumComplete, installed, heap, dma>>

\* mutation of EfiError: no status is an error
EfiErrorNever(st) == FALSE

\* EFI_ERROR (Status)
EfiError(st) == st # "EFI_SUCCESS"

\* IoMmuCommonInitialise after InitialiseRiscVIoMmu returned: on success the
\* protocol is installed on a new handle
IoMmuCommonInitialiseReturn ==
  /\ Top = "ci_return"
  /\ IF EfiError(loc.InitStatus)
       THEN /\ Status' = loc.InitStatus
            /\ UNCHANGED installed
       ELSE /\ installed' = installed + 1
            /\ Status' = "EFI_SUCCESS"
  /\ pc' = Tail(pc)
  /\ UNCHANGED <<Ctx, hw, loc, event, pciEnumComplete, mmio, heap, dma>>

Next ==
  \/ DetectDeviceTree
  \/ DetectAcpiRimt
  \/ AcpiRimtNode
  \/ AcpiRimtEnd
  \/ EntryPointCheck
  \/ PciBusEnumerationCompletes
  \/ OnPciEnumerationComplete
  \/ OnPciEnumerationCompleteClose
  \/ IoMmuCommonInitialise
  \/ AssertIsReset
  \/ CheckVersion
  \/ NegotiateEndianness
  \/ NegotiatePagingMode
  \/ AllocateQueue
  \/ AllocateQueueWait
  \/ ProgramContextRoot
  \/ ProgramContextRootWait
  \/ ProgramContextRootReadBack
  \/ ProgramContextRootWaitRoot
  \/ IoMmuCommonInitialiseReturn

Spec == Init /\ [][Next]_vars

(***************************************************************************)
(* Progress.  The driver is the only thread and always runs its next step  *)
(* (weak fairness of Next).  The two device hypotheses: a polled queue CSR *)
(* eventually reads with qon set, a polled DDTP eventually reads with busy *)
(* clear.                                                                  *)
(***************************************************************************)
DeviceReportsQon ==
  AllocateQueueWait /\ hw'[QueueRegs(loc.Queue).c].qon = TRUE

DeviceClearsBusy ==
  (ProgramContextRootWait \/ ProgramContextRootWaitRoot) /\ hw'.ddtp.busy = FALSE

LiveSpec ==
  Spec /\ WF_vars(Next) /\ WF_vars(DeviceReportsQon) /\ WF_vars(DeviceClearsBusy)

(***************************************************************************)
(* The queue phase for builds with other values of QUEUE_NUMBER_OF_ENTRIES. *)
(***************************************************************************)
\* values of QUEUE_NUMBER_OF_ENTRIES: 0, 1, an even number that is no power
\* of two, and the powers of two
EntryCounts == {0, 1, 6} \cup {2^k : k \in 1..MaxLog2Entries}

\* capability values at the queue phase: with and without ATS
QueuePhaseCapabilities == {[c EXCEPT !.ATS = a] : c \in FullCapabilities, a \in BOOLEAN}

\* The state in which InitialiseRiscVIoMmu calls AllocateQueue for the
\* command queue: a system IOMMU from the device tree, in reset, little-endian
\* SV39 hart; in a build with n queue entries and device_id width w
QueuePhaseEntry(caps, n, w) ==
    /\ Ctx = [DriverContextInit EXCEPT !.DriverState = STATE_INITIALISED, !.Address = 4096]
    /\ hw = ResetDevice(caps, FALSE)
    /\ pc = <<"aq_program", "ep_done">>
    /\ loc = [LocalsInit EXCEPT !.Capabilities = caps, !.HartSatpMode = SATP_MODE_SV39,
                                !.Queue = "CommandQueue", !.Entries = n,
                                !.DeviceIdSupportedWidth = w]
    /\ Status = "none"
    /\ event = "none"
    /\ pciEnumComplete \in BOOLEAN
    /\ installed = 0
    /\ mmio = IoMmuIsResetReads(hw) \o
              <<Access("R64", R_RISCV_IOMMU_CAPABILITIES), Access("R32", R_RISCV_IOMMU_FCTL),
                Access("W32", R_RISCV_IOMMU_FCTL)>>
    /\ heap = 0
    /\ dma = DmaIdle

QueueSizeInit ==
  \E caps \in QueuePhaseCapabilities, n \in EntryCounts :
    QueuePhaseEntry(caps, n, DeviceIdSupportedWidth)

QueueSizeNext ==
  \/ AllocateQueue
  \/ AllocateQueueWait

QueueSizeSpec == QueueSizeInit /\ [][QueueSizeNext]_vars

(***************************************************************************)
(* The rest of InitialiseRiscVIoMmu for builds with other values of        *)
(* DeviceIdSupportedWidth.                                                 *)
(***************************************************************************)
\* values of DeviceIdSupportedWidth (a UINT8)
Widths == 0..MaxWidth

\* capability values at the context-root phase: both context-structure
\* formats, with and without ATS
ContextRootCapabilities ==
  {[c EXCEPT !.ATS = a, !.MSI_FLAT = e] : c \in FullCapabilities, a \in BOOLEAN, e \in BOOLEAN}

ContextRootInit ==
  \E caps \in ContextRootCapabilities, w \in Widths :
    QueuePhaseEntry(caps, QUEUE_NUMBER_OF_ENTRIES, w)

ContextRootNext ==
  \/ AllocateQueue
  \/ AllocateQueueWait
  \/ ProgramContextRoot
  \/ ProgramContextRootWait
  \/ ProgramContextRootReadBack
  \/ ProgramContextRootWaitRoot
  \/ IoMmuCommonInitialiseReturn

ContextRootSpec == ContextRootInit /\ [][ContextRootNext]_vars

(***************************************************************************)
(* The DMA mapping engine (IoMmuProtocol.c).                               *)
(***************************************************************************)
\* mutation of RiscVGetIoMmuMemoryTop: SV48 is given the SV39 ceiling
RiscVGetIoMmuMemoryTopNarrow(fctl, HartSatpMode) ==
  IF fctl.GXL THEN U64(32, -1)
  ELSE IF HartSatpMode \in {SATP_MODE_SV39, SATP_MODE_SV48} THEN U64(39, -1)
  ELSE IF HartSatpMode = SATP_MODE_SV57 THEN U64(57, -1)
  ELSE U64(0, 0)

\* RiscVGetIoMmuMemoryTop: the value it returns (0 on the path after the
\* assertion, which MemoryTopAsserts describes)
RiscVGetIoMmuMemoryTop(fctl, HartSatpMode) ==
  IF fctl.GXL THEN U64(32, -1)
  ELSE IF HartSatpMode = SATP_MODE_SV39 THEN U64(39, -1)
  ELSE IF HartSatpMode = SATP_MODE_SV48 THEN U64(48, -1)
  ELSE IF HartSatpMode = SATP_MODE_SV57 THEN U64(57, -1)
  ELSE U64(0, 0)

\* RiscVGetIoMmuMemoryTop reaches ASSERT (FALSE)
MemoryTopAsserts(fctl, HartSatpMode) ==
  /\ ~fctl.GXL
  /\ HartSatpMode \notin {SATP_MODE_SV39, SATP_MODE_SV48, SATP_MODE_SV57}

\* the 64-bit variants of the operations
Is64Bit(Operation) ==
  Operation \in {EdkiiIoMmuOperationBusMasterRead64, EdkiiIoMmuOperationBusMasterWrite64,
                 EdkiiIoMmuOperationBusMasterCommonBuffer64}

\* the common-buffer operations
IsCommonBuffer(Operation) ==
  Operation \in {EdkiiIoMmuOperationBusMasterCommonBuffer,
                 EdkiiIoMmuOperationBusMasterCommonBuffer64}

\* IoMmuMap: the operations whose remap copies the host buffer to the bounce pages
IsRead(Operation) ==
  Operation \in {EdkiiIoMmuOperationBusMasterRead, EdkiiIoMmuOperationBusMasterRead64}

\* mutation of MapArgumentsInvalid: the Mapping pointer is not checked
MapArgumentsInvalidSkipsMapping(c) ==
  \/ c.Operation >= EdkiiIoMmuOperationMaximum
  \/ c.HostAddress = U64(0, NULL)
  \/ c.NullPointer \in {"NumberOfBytes", "DeviceAddress"}

\* IoMmuMap: the first two checks
MapArgumentsInvalid(c) ==
  \/ c.Operation >= EdkiiIoMmuOperationMaximum
  \/ c.HostAddress = U64(0, NULL)
  \/ c.NullPointer # "none"

\* mutation of Above4G: a range that ends on 4 GiB counts as above it
Above4GInclusive(Operation, PhysicalAddress, NumberOfBytes) ==
  /\ ~Is64Bit(Operation)
  /\ U64LessEq(SIZE_4GB, U64Add(PhysicalAddress, NumberOfBytes))

\* IoMmuMap: the range crosses 4 GiB and the operation cannot address it
Above4G(Operation, PhysicalAddress, NumberOfBytes) ==
  /\ ~Is64Bit(Operation)
  /\ U64Less(SIZE_4GB, U64Add(PhysicalAddress, NumberOfBytes))

\* mutation of NeedRemap: the alignment of the buffer is not looked at
NeedRemapSkipsAlignment(Operation, PhysicalAddress, NumberOfBytes, DmaMemoryTop) ==
  \/ U64LessEq(DmaMemoryTop, U64Add(PhysicalAddress, NumberOfBytes))
  \/ Above4G(Operation, PhysicalAddress, NumberOfBytes)

\* IoMmuMap: NeedRemap after the three checks
NeedRemap(Operation, PhysicalAddress, NumberOfBytes, DmaMemoryTop) ==
  \/ U64LessEq(DmaMemoryTop, U64Add(PhysicalAddress, NumberOfBytes))
  \/ Above4G(Operation, PhysicalAddress, NumberOfBytes)
  \/ /\ ~IsCommonBuffer(Operation)
     /\ ~IsAligned4K(PhysicalAddress) \/ NumberOfBytes # AlignValue(NumberOfBytes)

\* mutation of PlacementTop: the ceiling is not lowered to 4 GiB - 1
PlacementTopUnclamped(Operation, PhysicalAddress, NumberOfBytes, DmaMemoryTop) == DmaMemoryTop

\* IoMmuMap: DmaMemoryTop after the three checks
PlacementTop(Operation, PhysicalAddress, NumberOfBytes, DmaMemoryTop) ==
  IF Above4G(Operation, PhysicalAddress, NumberOfBytes)
    THEN MIN(DmaMemoryTop, U64Add(SIZE_4GB, -1))
    ELSE DmaMemoryTop

\* mutation of CommonBufferRejected: a common buffer is remapped like any other
CommonBufferRejectedNever(Operation, Remap) == FALSE

\* IoMmuMap: a common buffer that would need a remap
CommonBufferRejected(Operation, Remap) == IsCommonBuffer(Operation) /\ Remap

\* two page ranges share a page
Overlap(b, n, r) ==
  /\ b.base = r.Base.base
  /\ b.off < r.Base.off + r.Pages * SIZE_4KB
  /\ r.Base.off < b.off + n * SIZE_4KB

\* gBS->AllocatePages (AllocateMaxAddress, ...): the bases it can return for
\* n pages whose last byte is at or below max, given the ranges in use
AllocateMaxAddress(n, max, inUse) ==
  {b \in PageBases : /\ U64LessEq(U64Add(b, n * SIZE_4KB - 1), max)
                     /\ \A r \in inUse : ~Overlap(b, n, r)}

\* the MAP_INFO at MapInfo for call c, with DeviceAddress d
MapInfoRecord(MapInfo, c, d) ==
  [Address |-> MapInfo, Signature |-> "DMAP", Operation |-> c.Operation,
   HostAddress |-> c.HostAddress, NumberOfBytes |-> c.NumberOfBytes, DeviceAddress |-> d]

\* mutation of MapFails: *NumberOfBytes is left as the caller set it
MapFailsKeepsLength(st) == [dma EXCEPT !.out.Status = st]

\* IoMmuMap returns an error after AllocatePool was called: *NumberOfBytes
\* is zeroed, no MAP_INFO is left
MapFails(st) ==
  [dma EXCEPT !.out.Status = st, !.out.NumberOfBytes = 0, !.out.written = {"NumberOfBytes"}]

\* IoMmuMap returns success with the MAP_INFO at MapInfo and device address d
MapSucceeds(MapInfo, d) ==
  [dma EXCEPT !.records = @ \cup {MapInfoRecord(MapInfo, dma.call, d)},
              !.out.Status = "EFI_SUCCESS",
              !.out.written = {"DeviceAddress", "Mapping"},
              !.out.DeviceAddress = d,
              !.out.Mapping = MapInfo]

\* IoMmuMap, from entry to return
IoMmuMap ==
  /\ Top = "map_entry"
  /\ LET c == dma.call
         read == Append(mmio, Access("R32", R_RISCV_IOMMU_FCTL))
         MemoryTop == RiscVGetIoMmuMemoryTop(hw.fctl, c.HartSatpMode)
         Remap == NeedRemap(c.Operation, c.HostAddress, c.NumberOfBytes, MemoryTop)
         DmaMemoryTop == PlacementTop(c.Operation, c.HostAddress, c.NumberOfBytes, MemoryTop)
         NumberOfPages == EfiSizeToPages(c.NumberOfBytes)
     IN IF MapArgumentsInvalid(c)
          THEN /\ dma' = [dma EXCEPT !.out.Status = "EFI_INVALID_PARAMETER"]
               /\ pc' = Tail(pc)
               /\ UNCHANGED mmio
        ELSE IF MemoryTopAsserts(hw.fctl, c.HartSatpMode)
          THEN /\ pc' = <<"aborted">>
               /\ mmio' = read
               /\ UNCHANGED dma
        ELSE IF CommonBufferRejected(c.Operation, Remap)
          THEN /\ dma' = [dma EXCEPT !.out.Status = "EFI_UNSUPPORTED"]
               /\ pc' = Tail(pc)
               /\ mmio' = read
        ELSE /\ pc' = Tail(pc)
             /\ mmio' = read
             /\ \/ dma' = MapFails("EFI_OUT_OF_RESOURCES")
                \/ \E MapInfo \in PoolAddresses \ {r.Address : r \in dma.records} :
                     IF Remap
                       THEN \/ \E st \in AllocatePagesErrors : dma' = MapFails(st)
                            \/ \E b \in AllocateMaxAddress(NumberOfPages, DmaMemoryTop, dma.pages) :
                                 dma' = [MapSucceeds(MapInfo, b) EXCEPT
                                           !.pages = @ \cup {[Base |-> b, Pages |-> NumberOfPages]},
                                           !.mem[b] = IF IsRead(c.Operation)
                                                        THEN dma.mem[c.HostAddress] ELSE @]
                       ELSE dma' = MapSucceeds(MapInfo, c.HostAddress)
  /\ UNCHANGED <<Ctx, hw, loc, Status, event, pciEnumComplete, installed, heap>>

\* values of EFI_MEMORY_TYPE: the two IoMmuAllocateBuffer accepts
EfiBootServicesData == 4
EfiRuntimeServicesData == 6

\* MemoryType arguments: the two accepted types and EfiLoaderData
MemoryTypes == {2, EfiBootServicesData, EfiRuntimeServicesData}

\* the calls of IoMmuAllocateBuffer.  Attributes is held as two flags: a bit
\* of EDKII_IOMMU_ATTRIBUTE_INVALID_FOR_ALLOCATE_BUFFER is set, the bit
\* EDKII_IOMMU_ATTRIBUTE_DUAL_ADDRESS_CYCLE is set
AllocateBufferCalls ==
  [fn : {"IoMmuAllocateBuffer"}, MemoryType : MemoryTypes, Pages : 1..2,
   HostAddressIsNull : BOOLEAN, InvalidAttribute : BOOLEAN, DualAddressCycle : BOOLEAN,
   HartSatpMode : SatpModes]

\* mutation of AllocateBufferArguments: the attribute test is missing
AllocateBufferArgumentsIgnoresAttributes(c) ==
  IF c.MemoryType \notin {EfiBootServicesData, EfiRuntimeServicesData}
    THEN "EFI_INVALID_PARAMETER"
  ELSE IF c.HostAddressIsNull THEN "EFI_INVALID_PARAMETER"
  ELSE "EFI_SUCCESS"

\* IoMmuAllocateBuffer: the argument tests in the order of the code, giving
\* the status returned by the first that fails, EFI_SUCCESS when all pass
AllocateBufferArguments(c) ==
  IF c.MemoryType \notin {EfiBootServicesData, EfiRuntimeServicesData}
    THEN "EFI_INVALID_PARAMETER"
  ELSE IF c.InvalidAttribute THEN "EFI_UNSUPPORTED"
  ELSE IF c.HostAddressIsNull THEN "EFI_INVALID_PARAMETER"
  ELSE "EFI_SUCCESS"

\* mutation of AllocateBufferCeiling: the 4 GiB limit is never applied
AllocateBufferCeilingUnclamped(c, MemoryTop) == MemoryTop

\* IoMmuAllocateBuffer: the address handed to AllocatePages as the maximum
AllocateBufferCeiling(c, MemoryTop) ==
  IF c.DualAddressCycle THEN MemoryTop ELSE MIN(MemoryTop, U64Add(SIZE_4GB, -1))

\* IoMmuAllocateBuffer, from entry to return.  *HostAddress is the output
\* held in out.DeviceAddress
IoMmuAllocateBuffer ==
  /\ Top = "allocate_buffer_entry"
  /\ LET c == dma.call
         read == Append(mmio, Access("R32", R_RISCV_IOMMU_FCTL))
         MemoryTop == RiscVGetIoMmuMemoryTop(hw.fctl, c.HartSatpMode)
         PhysicalAddress == AllocateBufferCeiling(c, MemoryTop)
     IN IF AllocateBufferArguments(c) # "EFI_SUCCESS"
          THEN /\ dma' = [dma EXCEPT !.out.Status = AllocateBufferArguments(c)]
               /\ pc' = Tail(pc)
               /\ UNCHANGED mmio
        ELSE IF MemoryTopAsserts(hw.fctl, c.HartSatpMode)
          THEN /\ pc' = <<"aborted">>
               /\ mmio' = read
               /\ UNCHANGED dma
        ELSE /\ pc' = Tail(pc)
             /\ mmio' = read
             /\ \/ \E st \in AllocatePagesErrors : dma' = [dma EXCEPT !.out.Status = st]
                \/ \E b \in AllocateMaxAddress(c.Pages, PhysicalAddress, dma.pages) :
                     dma' = [dma EXCEPT !.pages = @ \cup {[Base |-> b, Pages |-> c.Pages]},
                                        !.out.Status = "EFI_SUCCESS",
                                        !.out.written = {"HostAddress"},
                                        !.out.DeviceAddress = b]
  /\ UNCHANGED <<Ctx, hw, loc, Status, event, pciEnumComplete, installed, heap>>

\* pointers a caller can pass as Mapping that no Map call returned: memory
\* that does not hold a MAP_INFO (its first word is not the signature)
ForeignPointers == {U64(0, 49152)}

\* the MAP_INFO read through Mapping: the record when Mapping is a MAP_INFO
\* the driver holds, memory that holds no signature (zeroes) otherwise
MapInfoAt(Mapping) ==
  IF \E r \in dma.records : r.Address = Mapping
    THEN CHOOSE r \in dma.records : r.Address = Mapping
    ELSE [Address |-> Mapping, Signature |-> "none",
          Operation |-> EdkiiIoMmuOperationBusMasterRead, HostAddress |-> U64(0, NULL),
          NumberOfBytes |-> 0, DeviceAddress |-> U64(0, NULL)]

\* IoMmuUnmap: the operations whose bounce pages are copied back to the host buffer
IsWriteOperation(Operation) ==
  Operation \in {EdkiiIoMmuOperationBusMasterWrite, EdkiiIoMmuOperationBusMasterWrite64}

\* mutation of BounceInUse: the device range is released whatever it is
BounceInUseAlways(MapInfo) == TRUE

\* IoMmuUnmap: the mapping was remapped
BounceInUse(MapInfo) == MapInfo.DeviceAddress # MapInfo.HostAddress

\* mutation of FreedRange: one page is freed whatever the length
FreedRangeOnePage(MapInfo) == [Base |-> MapInfo.DeviceAddress, Pages |-> 1]

\* IoMmuUnmap: the page range passed to gBS->FreePages
FreedRange(MapInfo) ==
  [Base |-> MapInfo.DeviceAddress, Pages |-> EfiSizeToPages(MapInfo.NumberOfBytes)]

\* mutation of CopyBack: every remapped mapping is copied back
CopyBackAlways(MapInfo) == TRUE

\* IoMmuUnmap: the bounce pages are copied to the host buffer
CopyBack(MapInfo) == IsWriteOperation(MapInfo.Operation)

\* mutation of SignatureRejected: the signature is not looked at
SignatureRejectedNever(Signature) == FALSE

\* IoMmuUnmap: Mapping does not carry MAP_INFO_SIGNATURE
SignatureRejected(Signature) == Signature # "DMAP"

\* the caller's view after IoMmuUnmap returned st
UnmapResult(st) == [NoResult(NULL) EXCEPT !.Status = st]

\* IoMmuUnmap, from entry to return, called by a consumer with Mapping NULL,
\* a foreign pointer or a handle an earlier Map returned and that is still
\* mapped
IoMmuUnmap ==
  /\ pc = <<"ep_done">>
  /\ installed > 0
  /\ \E Mapping \in {U64(0, NULL)} \cup ForeignPointers \cup {r.Address : r \in dma.records} :
       LET call == [fn |-> "IoMmuUnmap", Mapping |-> Mapping]
       IN IF Mapping = U64(0, NULL) \/ SignatureRejected(MapInfoAt(Mapping).Signature)
            THEN dma' = [dma EXCEPT !.call = call, !.out = UnmapResult("EFI_INVALID_PARAMETER")]
            ELSE LET MapInfo == MapInfoAt(Mapping)
                     Range == FreedRange(MapInfo)
                 IN dma' = [dma EXCEPT
                      !.call = call,
                      !.out = [UnmapResult("EFI_SUCCESS") EXCEPT
                                 !.freed = IF BounceInUse(MapInfo) THEN {Range} ELSE {}],
                      !.mem[MapInfo.HostAddress] =
                         IF BounceInUse(MapInfo) /\ CopyBack(MapInfo)
                           THEN dma.mem[MapInfo.DeviceAddress] ELSE @,
                      !.pages = IF BounceInUse(MapInfo) THEN @ \ {Range} ELSE @,
                      !.records = @ \ {MapInfo}]
  /\ UNCHANGED <<Ctx, hw, pc, loc, Status, event, pciEnumComplete, installed, mmio, heap>>

\* the bus master writes through the device address of a mapping (nothing
\* keeps it from writing a buffer that was mapped for it to read)
BusMasterWrites ==
  /\ pc = <<"ep_done">>
  /\ \E r \in dma.records :
       dma' = [dma EXCEPT !.mem[r.DeviceAddress] = "device data"]
  /\ UNCHANGED <<Ctx, hw, pc, loc, Status, event, pciEnumComplete, installed, mmio, heap>>

HARDWARE_DEVICE_PATH == 1
HW_PCI_DP == 1
EDKII_IOMMU_ACCESS_READ == 1
EDKII_IOMMU_ACCESS_WRITE == 2

\* the handle NULL
NullHandle ==
  [IsNull |-> TRUE, HasDevicePath |-> FALSE, Type |-> 0, SubType |-> 0, PciIo |-> "none"]

\* the device handles a caller passes to IoMmuSetAttribute: NULL, a handle
\* without a device path, and handles whose device path starts with a node of
\* Type 1 (hardware) or 2 (ACPI) and SubType 1 or 4; PciIo tells whether the
\* handle carries EFI_PCI_IO_PROTOCOL and whether its GetLocation succeeds
DeviceHandles ==
  {NullHandle, [NullHandle EXCEPT !.IsNull = FALSE]} \cup
  [IsNull : {FALSE}, HasDevicePath : {TRUE}, Type : {1, 2}, SubType : {1, 4},
   PciIo : {"none", "GetLocation fails", "located"}]

\* the values of IoMmuAccess: every combination of the read and write bits
AccessMasks == {0, EDKII_IOMMU_ACCESS_READ, EDKII_IOMMU_ACCESS_WRITE,
                EDKII_IOMMU_ACCESS_READ + EDKII_IOMMU_ACCESS_WRITE}

\* IoMmuSetAttribute: the test that refuses a device that is not a PCI device
DeviceKindRejected(DevicePath) ==
  DevicePath.Type # HARDWARE_DEVICE_PATH /\ DevicePath.SubType # HW_PCI_DP

\* IoMmuSetAttribute: the tests made before the device id is used, in the
\* order of the code, giving the status returned by the first that fails,
\* EFI_SUCCESS when all pass
SetAttributeArguments(DeviceHandle, Mapping, IoMmuAccess) ==
  IF DeviceHandle.IsNull \/ Mapping = U64(0, NULL) THEN "EFI_INVALID_PARAMETER"
  ELSE IF ~DeviceHandle.HasDevicePath THEN "EFI_INVALID_PARAMETER"
  ELSE IF SignatureRejected(MapInfoAt(Mapping).Signature) THEN "EFI_INVALID_PARAMETER"
  ELSE IF DeviceKindRejected(DeviceHandle) THEN "EFI_UNSUPPORTED"
  ELSE IF IoMmuAccess # EDKII_IOMMU_ACCESS_READ + EDKII_IOMMU_ACCESS_WRITE
    THEN "EFI_INVALID_PARAMETER"
  ELSE IF DeviceHandle.PciIo = "none" THEN "EFI_UNSUPPORTED"
  ELSE IF DeviceHandle.PciIo = "GetLocation fails" THEN "EFI_UNSUPPORTED"
  ELSE "EFI_SUCCESS"

\* IoMmuSetAttribute, from entry to return.  When every test passes Status is
\* set to EFI_DEVICE_ERROR and ASSERT_EFI_ERROR (Status) follows: the
\* assertion fails and the call does not reach its return
IoMmuSetAttribute ==
  /\ pc = <<"ep_done">>
  /\ installed > 0
  /\ \E DeviceHandle \in DeviceHandles, IoMmuAccess \in AccessMasks,
        Mapping \in {U64(0, NULL)} \cup ForeignPointers \cup {r.Address : r \in dma.records} :
       LET call == [fn |-> "IoMmuSetAttribute", DeviceHandle |-> DeviceHandle,
                    Mapping |-> Mapping, IoMmuAccess |-> IoMmuAccess]
           st == SetAttributeArguments(DeviceHandle, Mapping, IoMmuAccess)
       IN IF st # "EFI_SUCCESS"
            THEN /\ dma' = [dma EXCEPT !.call = call, !.out = UnmapResult(st)]
                 /\ pc' = pc
            ELSE /\ dma' = [dma EXCEPT !.call = call, !.out = NoResult(NULL)]
                 /\ pc' = <<"aborted">>
  /\ UNCHANGED <<Ctx, hw, loc, Status, event, pciEnumComplete, installed, mmio, heap>>

\* the capability value of the device the protocol is published for
ProtocolCapabilities ==
  [version |-> V_RISCV_IOMMU_CAPABILITIES_VERSION_1_0, Sv32 |-> TRUE, Sv39 |-> TRUE,
   Sv48 |-> TRUE, Sv57 |-> TRUE, MSI_FLAT |-> FALSE, ATS |-> FALSE, END |-> FALSE]

\* the register file InitialiseRiscVIoMmu leaves: command and fault queue and
\* a two-level context table programmed, FCTL.GXL as negotiated
InitialisedDevice(gxl) ==
  [ResetDevice(ProtocolCapabilities, FALSE) EXCEPT
     !.fctl.GXL = gxl,
     !.ddtp = [iommu_mode |-> V_RISCV_IOMMU_DDTP_IOMMU_MODE_2LVL, busy |-> FALSE,
               PPN |-> Ppn(PageAddress(2))],
     !.cqb = [PPN |-> Ppn(PageAddress(0)), LOG2SZ_1 |-> 6],
     !.fqb = [PPN |-> Ppn(PageAddress(1)), LOG2SZ_1 |-> 6],
     !.cqcsr = [qen |-> TRUE, ie |-> Indeterminate, qon |-> TRUE, busy |-> FALSE],
     !.fqcsr = [qen |-> TRUE, ie |-> Indeterminate, qon |-> TRUE, busy |-> FALSE]]

\* the register accesses of a successful InitialiseRiscVIoMmu without ATS
InitialiseTrace ==
  IoMmuIsResetReads(ResetDevice(ProtocolCapabilities, FALSE)) \o
  <<Access("R64", R_RISCV_IOMMU_CAPABILITIES), Access("R32", R_RISCV_IOMMU_FCTL),
    Access("W32", R_RISCV_IOMMU_FCTL),
    Access("W64", R_RISCV_IOMMU_CQB), Access("W32", R_RISCV_IOMMU_CQT),
    Access("W32", R_RISCV_IOMMU_CQCSR), Access("R32", R_RISCV_IOMMU_CQCSR),
    Access("W64", R_RISCV_IOMMU_FQB), Access("W32", R_RISCV_IOMMU_FQH),
    Access("W32", R_RISCV_IOMMU_FQCSR), Access("R32", R_RISCV_IOMMU_FQCSR),
    Access("R64", R_RISCV_IOMMU_CAPABILITIES),
    Access("W64", R_RISCV_IOMMU_DDTP), Access("R64", R_RISCV_IOMMU_DDTP),
    Access("W64", R_RISCV_IOMMU_DDTP), Access("R64", R_RISCV_IOMMU_DDTP)>>

\* The state in which a consumer of the published protocol calls into the
\* driver: a system IOMMU from the device tree, initialised, with FCTL.GXL as
\* negotiated (gxl), and the call c on top of the stack
ProtocolEntry(gxl, c, entry, NumberOfBytes) ==
  /\ Ctx = [DriverContextInit EXCEPT
              !.DriverState = STATE_INITIALISED, !.Address = 4096,
              !.CommandQueue.Buffer = PageAddress(0),
              !.FaultQueue.Buffer = PageAddress(1),
              !.DeviceContext.Buffer = PageAddress(2)]
  /\ hw = InitialisedDevice(gxl)
  /\ pc = <<entry, "ep_done">>
  /\ loc = [LocalsInit EXCEPT !.Capabilities = ProtocolCapabilities,
                              !.FeatureControl.GXL = gxl,
                              !.IoMmuMode = V_RISCV_IOMMU_DDTP_IOMMU_MODE_2LVL,
                              !.InitStatus = "EFI_SUCCESS"]
  /\ Status = "EFI_SUCCESS"
  /\ event = "none"
  /\ pciEnumComplete \in BOOLEAN
  /\ installed = 1
  /\ mmio = InitialiseTrace
  /\ heap = 3
  /\ dma = [DmaIdle EXCEPT !.call = c, !.out = NoResult(NumberOfBytes),
                           !.mem[U64(0, PageAddress(2))] = "zero"]

ProtocolInit ==
  \E gxl \in BOOLEAN :
    \/ \E c \in MapCalls : ProtocolEntry(gxl, c, "map_entry", c.NumberOfBytes)
    \/ \E c \in AllocateBufferCalls : ProtocolEntry(gxl, c, "allocate_buffer_entry", NULL)

ProtocolNext ==
  \/ IoMmuMap
  \/ IoMmuAllocateBuffer
  \/ IoMmuUnmap
  \/ BusMasterWrites

ProtocolSpec == ProtocolInit /\ [][ProtocolNext]_vars

\* the Map calls that precede the IoMmuSetAttribute calls drawn: one page at
\* the host address 0x1000 or NULL, every operation
AttributeMapCalls ==
  {c \in MapCalls : /\ c.HostAddress \in {U64(0, NULL), U64(0, 4096)}
                    /\ c.NumberOfBytes = 4096 /\ c.NullPointer = "none"
                    /\ c.HartSatpMode = SATP_MODE_SV39}

AttributeInit ==
  \E gxl \in BOOLEAN, c \in AttributeMapCalls :
    ProtocolEntry(gxl, c, "map_entry", c.NumberOfBytes)

AttributeNext ==
  \/ IoMmuMap
  \/ IoMmuSetAttribute

AttributeSpec == AttributeInit /\ [][AttributeNext]_vars

\* the Map calls of a caller that keeps several mappings at a time: two
\* pages, read or write, at a page-aligned buffer (no remap) or at a
\* misaligned one (remap)
MappingCalls ==
  [fn : {"IoMmuMap"},
   Operation : {EdkiiIoMmuOperationBusMasterRead, EdkiiIoMmuOperationBusMasterWrite},
   HostAddress : {U64(0, 4096), U64(0, 22528)}, NumberOfBytes : {8192},
   NullPointer : {"none"}, HartSatpMode : {SATP_MODE_SV39}]

\* a consumer of the protocol calls IoMmuMap again.  Every Map call that
\* passes validation reads FCTL once, so the length of the register trace
\* counts the calls made; the sequence is cut after MaxMapCalls calls
CallerCallsMap ==
  /\ pc = <<"ep_done">>
  /\ installed > 0
  /\ Len(mmio) < Len(InitialiseTrace) + MaxMapCalls
  /\ \E c \in MappingCalls :
       dma' = [dma EXCEPT !.call = c, !.out = NoResult(c.NumberOfBytes)]
  /\ pc' = <<"map_entry", "ep_done">>
  /\ UNCHANGED <<Ctx, hw, loc, Status, event, pciEnumComplete, installed, mmio, heap>>

MappingInit ==
  \E gxl \in BOOLEAN, c \in MappingCalls :
    ProtocolEntry(gxl, c, "map_entry", c.NumberOfBytes)

MappingNext ==
  \/ IoMmuMap
  \/ CallerCallsMap
  \/ IoMmuUnmap

MappingSpec == MappingInit /\ [][MappingNext]_vars

(***************************************************************************)
(* Properties.                                                             *)
(***************************************************************************)
\* number of accesses op to register off in the trace
Count(op, off) == Cardinality({i \in DOMAIN mmio : mmio[i].op = op /\ mmio[i].off = off})

\* the trace holds a write
IsWrite(a) == a.op \in {"W32", "W64"}
Writes(log) == {i \in DOMAIN log : IsWrite(log[i])}

\* positions inside InitialiseRiscVIoMmu
InitialisePositions ==
  {"init_reset", "init_version", "init_endian", "init_paging", "aq_program", "aq_wait",
   "pcr_entry", "pcr_wait", "pcr_readback", "pcr_wait_root"}

\* a device-context-table mode
TableModes == {V_RISCV_IOMMU_DDTP_IOMMU_MODE_1LVL, V_RISCV_IOMMU_DDTP_IOMMU_MODE_2LVL,
               V_RISCV_IOMMU_DDTP_IOMMU_MODE_3LVL}

\* C1: across all calls of IoMmuCommonInitialise (entry point, PCI callback)
\* each queue is programmed at most once, DDTP is programmed by at most one
\* run (a speculative and a final write), the protocol is installed at most
\* once; a call made when DriverState is Initialised changes no register,
\* allocates nothing and returns EFI_SUCCESS.
C1_ProgrammedOnce ==
  /\ Count("W64", R_RISCV_IOMMU_CQB) <= 1 /\ Count("W32", R_RISCV_IOMMU_CQCSR) <= 1
  /\ Count("W64", R_RISCV_IOMMU_FQB) <= 1 /\ Count("W32", R_RISCV_IOMMU_FQCSR) <= 1
  /\ Count("W64", R_RISCV_IOMMU_PQB) <= 1 /\ Count("W32", R_RISCV_IOMMU_PQCSR) <= 1
  /\ Count("W64", R_RISCV_IOMMU_DDTP) <= 2
  /\ heap <= 4
  /\ installed <= 1

C1_SecondCallIsNoOp ==
  (Top = "ci_entry" /\ Ctx.DriverState = STATE_INITIALISED) =>
     /\ mmio' = mmio /\ hw' = hw /\ heap' = heap /\ Ctx' = Ctx /\ installed' = installed
     /\ Status' = "EFI_SUCCESS"
     /\ pc' = Tail(pc)

C1_Idempotent == [](C1_ProgrammedOnce) /\ [][C1_SecondCallIsNoOp]_vars

\* C1 witness: the entry point calls IoMmuCommonInitialise after the nested
\* PCI callback has initialised the device and installed the protocol
C1_Witness ==
  pc = <<"ci_entry", "ep_done">> /\ Ctx.DriverState = STATE_INITIALISED /\ installed = 1

\* C2: an initialisation that returns EFI_UNSUPPORTED does not leave
\* DriverState at Initialised.
C2_UnsupportedNotInitialised ==
  (Status = "EFI_UNSUPPORTED") => (Ctx.DriverState # STATE_INITIALISED)

\* C3: no step assigns DriverState a value lower than its current value.
C3_StateMonotonic == [][Ctx'.DriverState >= Ctx.DriverState]_vars

\* C4: Address and IoMmuIsPciDevice do not change once DriverState has
\* reached Available.
C4_AddressFrozen ==
  [][(Ctx.DriverState >= STATE_AVAILABLE) =>
       (Ctx'.Address = Ctx.Address /\ Ctx'.IoMmuIsPciDevice = Ctx.IoMmuIsPciDevice)]_vars

\* C5: ACPI RIMT discovery runs only when device-tree discovery was
\* unavailable or found nothing (nothing adopted, no callback registered);
\* initialisation is entered, and registers are accessed, only with
\* DriverState >= Available and with Address a register-window base, never a
\* PCI bus/device/function value.
C5_PriorityChain ==
  /\ (Top \in {"detect_acpi", "acpi_loop"}) =>
        (loc.DetectStatus = "EFI_NOT_FOUND" /\ event = "none")
  /\ (Top = "detect_acpi") => (Ctx = DriverContextInit)
  /\ (Top \in InitialisePositions \cup {"ci_entry"}) =>
        (Ctx.DriverState >= STATE_AVAILABLE /\ Ctx.Address \in SystemBases \cup BarBases)
  /\ \A i \in DOMAIN mmio : mmio[i].base \in SystemBases \cup BarBases

\* C5 witness: a PCI IOMMU recorded as Detected was adopted by the callback
\* and its registers have been accessed
C5_Witness == Ctx.IoMmuIsPciDevice /\ mmio # <<>> /\ Top \in InitialisePositions

\* the reset conditions, as the architecture states them
ResetViolated(h) ==
  \/ \E c \in {h.cqcsr, h.fqcsr, h.pqcsr} : TRUE \in {c.qen, c.ie = 1, c.qon, c.busy}
  \/ h.ddtp.busy
  \/ h.ddtp.iommu_mode # V_RISCV_IOMMU_DDTP_IOMMU_MODE_OFF
  \/ h.ipsr # 0

\* C6: the reset check runs before any register write or allocation, and a
\* device that violates a reset condition makes initialisation abort with
\* no register written and nothing allocated.
C6_BeforeResetCheck ==
  (Top = "init_reset") =>
     /\ Writes(mmio) = {} /\ heap = 0
     /\ Ctx.CommandQueue.Buffer = NULL /\ Ctx.FaultQueue.Buffer = NULL
     /\ Ctx.PageRequestQueue.Buffer = NULL /\ Ctx.DeviceContext.Buffer = NULL

C6_AbortOnActiveDevice ==
  (Top = "init_reset" /\ ResetViolated(hw)) =>
     /\ pc' = <<"aborted">>
     /\ hw' = hw /\ heap' = heap /\ Ctx' = Ctx /\ Writes(mmio') = {}

C6_ResetVerifiedFirst == [](C6_BeforeResetCheck) /\ [][C6_AbortOnActiveDevice]_vars

\* C6 witness: initialisation aborted on a device with a pending interrupt
C6_Witness == pc = <<"aborted">> /\ hw.ipsr # 0 /\ mmio # <<>> /\ heap = 0

\* the last access of the trace is op to register off
LastAccessIs(log, op, off) ==
  Len(log) > 0 /\ log[Len(log)].op = op /\ log[Len(log)].off = off

\* InitialiseRiscVIoMmu returned EFI_UNSUPPORTED in this step
FailsUnsupported ==
  Head(pc') = "ci_return" /\ loc'.InitStatus = "EFI_UNSUPPORTED"

\* C7: in the endianness step, a big-endian hart on an IOMMU with FCTL.BE = 0
\* fails with EFI_UNSUPPORTED when capabilities.END is clear and otherwise
\* has FCTL.BE set to 1; a little-endian hart never fails there and FCTL.BE
\* keeps its value, also in the later write of FCTL.
C7_EndiannessStep ==
  (Top = "init_endian") =>
     LET big == loc'.HartIsBigEndian IN
     /\ (big /\ ~hw.fctl.BE /\ ~hw.caps.END) => (FailsUnsupported /\ hw' = hw)
     /\ (big /\ ~hw.fctl.BE /\ hw.caps.END) =>
           (hw'.fctl.BE /\ LastAccessIs(mmio', "W32", R_RISCV_IOMMU_FCTL)
            /\ Head(pc') = "init_paging")
     /\ ~big => (Head(pc') = "init_paging" /\ hw' = hw /\ Writes(mmio') = Writes(mmio))

C7_LittleEndianKeepsBe ==
  (hw.mapped /\ ~(Top = "init_endian" /\ loc'.HartIsBigEndian)
             /\ ~(Top = "init_paging" /\ loc.HartIsBigEndian)) =>
     (hw'.fctl.BE = hw.fctl.BE)

C7_Endianness == [][C7_EndiannessStep /\ C7_LittleEndianKeepsBe]_vars

\* C7 witness: the IOMMU of a big-endian hart was switched to big-endian
C7_Witness ==
  /\ Top = "init_paging" /\ loc.HartIsBigEndian /\ hw.fctl.BE
  /\ LastAccessIs(mmio, "W32", R_RISCV_IOMMU_FCTL)

\* the capability bit that advertises a paging mode
SvBit(caps, mode) ==
  CASE mode = SATP_MODE_SV32 -> caps.Sv32
    [] mode = SATP_MODE_SV39 -> caps.Sv39
    [] mode = SATP_MODE_SV48 -> caps.Sv48
    [] mode = SATP_MODE_SV57 -> caps.Sv57

\* C8: the paging-mode step fails with EFI_UNSUPPORTED exactly when the
\* hart's mode is SV64 or one of SV32/SV39/SV48/SV57 whose capability bit is
\* clear; otherwise FCTL is written with GXL = 1 iff the mode is SV32.
C8_PagingStep ==
  (Top = "init_paging") =>
     LET mode == loc'.HartSatpMode
         named == {SATP_MODE_SV32, SATP_MODE_SV39, SATP_MODE_SV48, SATP_MODE_SV57}
         refused == \/ mode = SATP_MODE_SV64
                    \/ (mode \in named /\ ~SvBit(hw.caps, mode)) IN
     /\ FailsUnsupported <=> refused
     /\ refused => (hw' = hw /\ mmio' = mmio)
     /\ ~refused => /\ LastAccessIs(mmio', "W32", R_RISCV_IOMMU_FCTL)
                     /\ Len(mmio') = Len(mmio) + 1
                     /\ hw'.fctl.GXL <=> (mode = SATP_MODE_SV32)
                     /\ Head(pc') = "aq_program"

C8_PagingMode == [][C8_PagingStep]_vars

\* C8 witness: an SV32 hart on an IOMMU that advertises Sv32 passed the check
\* and GXL was written as 1
C8_Witness ==
  Top = "aq_program" /\ loc.HartSatpMode = SATP_MODE_SV32 /\ hw.fctl.GXL
  /\ loc.Queue = "CommandQueue"

\* the queue phase of InitialiseRiscVIoMmu is over
QueuesProgrammed == Top = "pcr_entry" \/ Count("W64", R_RISCV_IOMMU_DDTP) > 0

\* queue q is allocated and enabled, its buffer programmed as its base
QueueEnabled(q) ==
  /\ Ctx[q].Buffer # NULL
  /\ hw[QueueRegs(q).c].qen
  /\ hw[QueueRegs(q).b].PPN = Ppn(Ctx[q].Buffer)
  /\ Count("W32", QueueRegs(q).csr) = 1

\* no register of queue q was written
QueueUntouched(q) ==
  /\ Ctx[q].Buffer = NULL
  /\ \A i \in Writes(mmio) :
        mmio[i].off \notin {QueueRegs(q).base, QueueRegs(q).headtail, QueueRegs(q).csr}

\* C9: once initialisation is past the queue phase the command and fault
\* queues are allocated and enabled, and the page-request queue is iff
\* capabilities.ATS is set; with ATS clear no page-request queue register is
\* ever written and its buffer stays NULL.
C9_QueuesByAts ==
  /\ QueuesProgrammed =>
        /\ QueueEnabled("CommandQueue")
        /\ QueueEnabled("FaultQueue")
        /\ hw.caps.ATS <=> QueueEnabled("PageRequestQueue")
  /\ ~hw.caps.ATS => QueueUntouched("PageRequestQueue")

\* C9 witness: the queue phase ended on a device without ATS
C9_Witness == Top = "pcr_entry" /\ ~hw.caps.ATS /\ hw.mapped

\* C10: the protocol is installed only when every initialisation step has
\* succeeded; a run that returned EFI_UNSUPPORTED installs nothing; queue
\* and context-table buffers are non-NULL only with DriverState Initialised.
C10_PublishedAfterSuccess ==
  /\ installed > 0 =>
        /\ Ctx.DriverState = STATE_INITIALISED
        /\ hw.caps.version = V_RISCV_IOMMU_CAPABILITIES_VERSION_1_0
        /\ QueueEnabled("CommandQueue") /\ QueueEnabled("FaultQueue")
        /\ hw.ddtp.iommu_mode \in TableModes
        /\ Ctx.DeviceContext.Buffer # NULL
        /\ hw.ddtp.PPN = Ppn(Ctx.DeviceContext.Buffer)
  /\ (Status = "EFI_UNSUPPORTED" \/ loc.InitStatus = "EFI_UNSUPPORTED") => installed = 0
  /\ (\/ Ctx.CommandQueue.Buffer # NULL \/ Ctx.FaultQueue.Buffer # NULL
      \/ Ctx.PageRequestQueue.Buffer # NULL \/ Ctx.DeviceContext.Buffer # NULL) =>
        Ctx.DriverState = STATE_INITIALISED

\* C10 witness: the protocol is installed and the entry point has returned
C10_Witness == installed = 1 /\ pc = <<"ep_done">> /\ Status = "EFI_SUCCESS"

\* AllocateQueue returns in this step
AllocateQueueReturns ==
  Top \in {"aq_program", "aq_wait"} /\ loc'.Queue # loc.Queue

\* C11: AllocateQueue writes the queue base (page number of the buffer and
\* log2 of the size minus one), then 0 to the tail (command queue) or head
\* (fault, page-request queue) register, then the CSR with qen; it returns
\* only after a read of that CSR has shown qon.
C11_RegisterOrder ==
  (Top = "aq_program" /\ Head(pc') # "aborted") =>
     LET r == QueueRegs(loc.Queue) IN
     /\ mmio' = mmio \o <<Access("W64", r.base), Access("W32", r.headtail),
                           Access("W32", r.csr)>>
     /\ r.headtail = (IF loc.Queue = "CommandQueue" THEN R_RISCV_IOMMU_CQT
                      ELSE IF loc.Queue = "FaultQueue" THEN R_RISCV_IOMMU_FQH
                      ELSE R_RISCV_IOMMU_PQH)
     /\ hw'[r.b].PPN = Ppn(Ctx'[loc.Queue].Buffer)
     /\ hw'[r.c].qen

C11_ReturnsAfterQonRead ==
  AllocateQueueReturns =>
     LET r == QueueRegs(loc.Queue) IN
     /\ LastAccessIs(mmio', "R32", r.csr)
     /\ hw'[r.c].qon = TRUE

C11_QueueProgramming == [][C11_RegisterOrder /\ C11_ReturnsAfterQonRead]_vars

\* log2 of a power of two
Log2(n) == CHOOSE k \in 0..30 : 2^k = n

\* C12: for every entry count in {2, 4, ..., 128} the LOG2SZ-1 field written
\* to the queue base register is log2(count) - 1 (6 for the configured 128),
\* and a count whose log2 is above 16 is rejected with nothing allocated and
\* no register written.
C12_SizeStep ==
  (Top = "aq_program") =>
     LET n == loc.Entries
         r == QueueRegs(loc.Queue) IN
     /\ (n \in {2^k : k \in 1..7} /\ Head(pc') # "aborted") =>
           /\ hw'[r.b].LOG2SZ_1 = Log2(n) - 1
           /\ (n = 128 => hw'[r.b].LOG2SZ_1 = 6)
     /\ (n > 2^QUEUE_MAX_LOG_SIZE) =>
           /\ pc' = <<"aborted">>
           /\ mmio' = mmio /\ heap' = heap /\ Ctx' = Ctx /\ hw' = hw

C12_SizeEncoding == (QUEUE_NUMBER_OF_ENTRIES = 128) /\ [][C12_SizeStep]_vars

\* C12 witness: a build with 2 entries programmed the command queue with a
\* size field of 0
C12_Witness ==
  loc.Entries = 2 /\ hw.cqb.PPN # 0 /\ hw.cqb.LOG2SZ_1 = 0 /\ Ctx.CommandQueue.Buffer # NULL

\* positions inside the wait loops of IoMmuWriteAndWait32/64
WaitPositions == {"aq_wait", "pcr_wait", "pcr_wait_root"}

\* C13: with a device that eventually reports qon after each queue enable and
\* eventually shows DDTP busy clear, initialisation eventually leaves
\* InitialiseRiscVIoMmu; and a read in the queue wait loop that does not show
\* qon never ends the loop, however many reads came before it: the loop has
\* no retry bound, gives up nowhere and returns no error.
C13_PollUntilAcknowledged ==
  (Top = "aq_wait" /\ hw'[QueueRegs(loc.Queue).c].qon # TRUE) =>
     /\ pc' = pc
     /\ loc'.Queue = loc.Queue /\ loc'.InitStatus = loc.InitStatus
     /\ Status' = Status

C13_EventuallyReturns ==
  (Top \in InitialisePositions) ~> (Top \notin InitialisePositions)

Capacity(extended, levels) ==
  CASE levels = 1 -> IF extended THEN N_RISCV_IOMMU_DEVICE_ID_EXTENDED_I1
                                 ELSE N_RISCV_IOMMU_DEVICE_ID_BASE_I1
    [] levels = 2 -> IF extended THEN N_RISCV_IOMMU_DEVICE_ID_EXTENDED_I2
                                 ELSE N_RISCV_IOMMU_DEVICE_ID_BASE_I2
    [] levels = 3 -> 24

\* the DDTP mode of a table with the given number of levels
ModeOfLevels(levels) == V_RISCV_IOMMU_DDTP_IOMMU_MODE_BARE + levels

\* C14: for every device_id width W and layout flag E (capabilities.MSI_FLAT)
\* for which some level count in {1,2,3} has capacity >= W, the candidate
\* mode of ProgramContextRoot is that of the smallest such level count.
C14_SelectionStep ==
  (Top = "pcr_entry" /\ Head(pc') # "aborted") =>
     LET W == loc.DeviceIdSupportedWidth
         E == hw.caps.MSI_FLAT
         sufficient == {l \in 1..3 : Capacity(E, l) >= W} IN
     /\ Ctx'.DeviceContext.ContextStructIsExtended = E
     /\ sufficient # {} =>
          loc'.IoMmuMode = ModeOfLevels(CHOOSE l \in sufficient : \A k \in sufficient : l <= k)

C14_LevelSelection == [][C14_SelectionStep]_vars

\* C14 witness: width 7 on the extended layout made a two-level table the
\* candidate (one level covers 6 bits there)
C14_Witness ==
  /\ Top \in {"pcr_wait", "pcr_readback"} /\ loc.DeviceIdSupportedWidth = 7
  /\ Ctx.DeviceContext.ContextStructIsExtended
  /\ loc.IoMmuMode = V_RISCV_IOMMU_DDTP_IOMMU_MODE_2LVL

\* C15: with W above the three-level capacity ProgramContextRoot writes no
\* mode to DDTP and initialisation returns EFI_UNSUPPORTED; whatever W, a
\* mode written to DDTP by ProgramContextRoot is a table mode, never OFF or
\* BARE.
C15_SelectionFailsStep ==
  (Top = "pcr_entry" /\ Head(pc') # "aborted") =>
     /\ (loc.DeviceIdSupportedWidth > 24) =>
          (Writes(mmio') = Writes(mmio) /\ FailsUnsupported)
     /\ (Writes(mmio') # Writes(mmio)) => loc'.IoMmuMode \in TableModes

C16_MismatchStep ==
  (Top = "pcr_readback" /\ hw.ddtp.iommu_mode # loc.IoMmuMode) =>
     /\ FailsUnsupported
     /\ mmio' = Append(mmio, Access("R64", R_RISCV_IOMMU_DDTP))
     /\ hw'.ddtp.iommu_mode = hw.ddtp.iommu_mode /\ hw'.ddtp.PPN = hw.ddtp.PPN
     /\ Count("W64", R_RISCV_IOMMU_DDTP) = 1

C16_AfterMismatch ==
  (loc.InitStatus = "EFI_UNSUPPORTED" /\ Ctx.DeviceContext.Buffer # NULL) =>
     /\ Count("W64", R_RISCV_IOMMU_DDTP) = 1
     /\ LastAccessIs(mmio, "R64", R_RISCV_IOMMU_DDTP)
     /\ installed = 0

C16_NoRetry == [](C16_AfterMismatch) /\ [][C16_MismatchStep]_vars

\* C16 witness: the device kept mode OFF, initialisation returned
\* EFI_UNSUPPORTED
C16_Witness ==
  /\ Status = "EFI_UNSUPPORTED" /\ Ctx.DeviceContext.Buffer # NULL
  /\ hw.ddtp.iommu_mode = V_RISCV_IOMMU_DDTP_IOMMU_MODE_OFF
  /\ loc.IoMmuMode = V_RISCV_IOMMU_DDTP_IOMMU_MODE_2LVL

\* C17: when the read-back mode matches, the root's page number and the mode
\* are written in one 64-bit write of DDTP, and ProgramContextRoot returns
\* TRUE only after a read of DDTP made after that write has shown busy = 0.
C17_RootWriteStep ==
  (Top = "pcr_readback" /\ hw.ddtp.iommu_mode = loc.IoMmuMode) =>
     /\ mmio' = mmio \o <<Access("R64", R_RISCV_IOMMU_DDTP), Access("W64", R_RISCV_IOMMU_DDTP)>>
     /\ hw'.ddtp.PPN = Ppn(Ctx.DeviceContext.Buffer)
     /\ hw'.ddtp.iommu_mode = loc.IoMmuMode

C17_ReturnsAfterBusyClear ==
  (Top \in {"pcr_readback", "pcr_wait_root"} /\ loc'.InitStatus = "EFI_SUCCESS") =>
     /\ LastAccessIs(mmio', "R64", R_RISCV_IOMMU_DDTP)
     /\ hw'.ddtp.busy = FALSE

C17_RootProgramming == [][C17_RootWriteStep /\ C17_ReturnsAfterBusyClear]_vars

(***************************************************************************)
(* Properties of the DMA mapping engine.                                   *)
(***************************************************************************)
\* a protocol call is at its entry
AtProtocolEntry == Top \in {"map_entry", "allocate_buffer_entry"}

\* the documented ceiling: 2^32 - 1 under GXL, else 2^39 - 1, 2^48 - 1 and
\* 2^57 - 1 for SV39, SV48 and SV57
DocumentedCeiling(gxl, mode) ==
  IF gxl THEN U64(32, -1)
  ELSE CASE mode = SATP_MODE_SV39 -> U64(39, -1)
         [] mode = SATP_MODE_SV48 -> U64(48, -1)
         [] mode = SATP_MODE_SV57 -> U64(57, -1)

\* the last byte of a page range
LastByte(r) == U64Add(r.Base, r.Pages * SIZE_4KB - 1)

\* C18: when Map or AllocateBuffer computes memoryTop, the result is 2^32-1
\* with FCTL.GXL set and otherwise 2^39-1, 2^48-1, 2^57-1 for SV39, SV48,
\* SV57, and every page range the call allocates ends at or below it; for
\* any other SATP mode with GXL clear the call aborts: it does not return,
\* allocates nothing and writes no output.
C18_CeilingStep ==
  (AtProtocolEntry /\ mmio' # mmio) =>
     /\ mmio' = Append(mmio, Access("R32", R_RISCV_IOMMU_FCTL))
     /\ IF ~hw.fctl.GXL /\ dma.call.HartSatpMode \notin {SATP_MODE_SV39, SATP_MODE_SV48, SATP_MODE_SV57}
          THEN pc' = <<"aborted">> /\ dma' = dma
          ELSE /\ pc' = Tail(pc)
               /\ RiscVGetIoMmuMemoryTop(hw.fctl, dma.call.HartSatpMode) =
                    DocumentedCeiling(hw.fctl.GXL, dma.call.HartSatpMode)
               /\ \A r \in dma'.pages \ dma.pages :
                    U64LessEq(LastByte(r), DocumentedCeiling(hw.fctl.GXL, dma.call.HartSatpMode))

C18_MemoryTop == [][C18_CeilingStep]_vars

\* C18 witness: a Map call made with GXL clear and the hart in Bare mode
\* has aborted after reading FCTL
C18_Witness ==
  /\ pc = <<"aborted">> /\ dma.call.fn = "IoMmuMap"
  /\ ~hw.fctl.GXL /\ dma.call.HartSatpMode = 0
  /\ LastAccessIs(mmio, "R32", R_RISCV_IOMMU_FCTL)
  /\ dma.out.Status = "none" /\ dma.pages = {}

\* a Map call whose arguments pass the checks and for which memoryTop is defined
WellFormedMap ==
  /\ Top = "map_entry"
  /\ dma.call.Operation < EdkiiIoMmuOperationMaximum
  /\ dma.call.HostAddress # U64(0, NULL)
  /\ dma.call.NullPointer = "none"
  /\ hw.fctl.GXL \/ dma.call.HartSatpMode \in {SATP_MODE_SV39, SATP_MODE_SV48, SATP_MODE_SV57}

\* hostAddress + length of the call
RangeEnd == U64Add(dma.call.HostAddress, dma.call.NumberOfBytes)

\* memoryTop of the call
MemoryTop == DocumentedCeiling(hw.fctl.GXL, dma.call.HartSatpMode)

\* (a) the range ends at or above memoryTop
EndsAtOrAboveTop == U64LessEq(MemoryTop, RangeEnd)

\* (b) the operation is not a 64-bit variant and the last byte of the range
\* lies at or above 4 GiB
ExtendsAbove4G ==
  /\ dma.call.Operation \in {EdkiiIoMmuOperationBusMasterRead, EdkiiIoMmuOperationBusMasterWrite,
                             EdkiiIoMmuOperationBusMasterCommonBuffer}
  /\ U64LessEq(U64(32, 0), U64Add(RangeEnd, -1))

\* C19: a Map call with a common-buffer operation whose range ends at or
\* above memoryTop, or (for the 32-bit variant) extends above 4 GiB, returns
\* EFI_UNSUPPORTED; no MAP_INFO and no pages are allocated, memory is not
\* touched and none of *NumberOfBytes, *DeviceAddress, *Mapping is written.
C19_RejectedStep ==
  (/\ WellFormedMap
   /\ dma.call.Operation \in {EdkiiIoMmuOperationBusMasterCommonBuffer,
                              EdkiiIoMmuOperationBusMasterCommonBuffer64}
   /\ EndsAtOrAboveTop \/ ExtendsAbove4G) =>
     /\ pc' = Tail(pc)
     /\ dma' = [dma EXCEPT !.out.Status = "EFI_UNSUPPORTED"]
     /\ dma'.out.written = {} /\ dma'.records = {} /\ dma'.pages = {}
     /\ heap' = heap

C19_CommonBufferNeverRemapped == [][C19_RejectedStep]_vars

\* C19 witness: a 64-bit common buffer that ends above the SV39 ceiling was
\* refused, with nothing allocated and no output written
C19_Witness ==
  /\ dma.call.fn = "IoMmuMap" /\ pc = <<"ep_done">>
  /\ dma.call.Operation = EdkiiIoMmuOperationBusMasterCommonBuffer64
  /\ dma.call.HostAddress = U64(39, -8192) /\ dma.call.NumberOfBytes = 8192
  /\ dma.call.HartSatpMode = SATP_MODE_SV39 /\ ~hw.fctl.GXL
  /\ dma.out.Status = "EFI_UNSUPPORTED" /\ dma.out.written = {}
  /\ dma.records = {} /\ dma.pages = {}

\* (c) hostAddress or length is not a multiple of 4 KiB
NotPageAligned ==
  dma.call.HostAddress.off % SIZE_4KB # 0 \/ dma.call.NumberOfBytes % SIZE_4KB # 0

\* C20: a Map call with a read or write operation that returns success uses
\* a bounce buffer (freshly allocated pages, whose base is the device
\* address) if and only if the range ends at or above memoryTop, or the
\* operation is a 32-bit one and the range extends above 4 GiB, or the host
\* address or the length is not 4 KiB aligned; otherwise the device address
\* is the host address and no pages are allocated.  A call that fails leaves
\* no pages allocated, and fails for lack of memory only.
C20_RemapStep ==
  (/\ WellFormedMap
   /\ dma.call.Operation \in {EdkiiIoMmuOperationBusMasterRead, EdkiiIoMmuOperationBusMasterWrite,
                              EdkiiIoMmuOperationBusMasterRead64, EdkiiIoMmuOperationBusMasterWrite64}) =>
     /\ pc' = Tail(pc)
     /\ IF dma'.out.Status = "EFI_SUCCESS"
          THEN IF EndsAtOrAboveTop \/ ExtendsAbove4G \/ NotPageAligned
                 THEN /\ dma'.pages = {[Base |-> dma'.out.DeviceAddress,
                                       Pages |-> EfiSizeToPages(dma.call.NumberOfBytes)]}
                      /\ dma'.out.DeviceAddress \in PageBases
                      /\ dma'.out.DeviceAddress # dma.call.HostAddress
                 ELSE /\ dma'.out.DeviceAddress = dma.call.HostAddress
                      /\ dma'.pages = {}
          ELSE /\ dma'.pages = {} /\ dma'.records = {}
               /\ dma'.out.Status \in {"EFI_OUT_OF_RESOURCES", "EFI_NOT_FOUND"}

C20_RemapDecision == [][C20_RemapStep]_vars

\* C20 witness: BusMasterRead of one page at 0x1000 with memoryTop 2^39-1
\* returned device address 0x1000 with no pages allocated
C20_Witness ==
  /\ dma.call.fn = "IoMmuMap" /\ pc = <<"ep_done">>
  /\ dma.call.Operation = EdkiiIoMmuOperationBusMasterRead
  /\ dma.call.HostAddress = U64(0, 4096) /\ dma.call.NumberOfBytes = 4096
  /\ dma.call.HartSatpMode = SATP_MODE_SV39 /\ ~hw.fctl.GXL
  /\ dma.out.Status = "EFI_SUCCESS" /\ dma.out.DeviceAddress = U64(0, 4096)
  /\ dma.pages = {} /\ Cardinality(dma.records) = 1

\* the scenario at the 4 GiB boundary: BusMasterRead from 0xFFFFF000 with
\* memoryTop 2^39-1
BoundaryScenario(NumberOfBytes) ==
  /\ dma.call.fn = "IoMmuMap"
  /\ dma.call.Operation = EdkiiIoMmuOperationBusMasterRead
  /\ dma.call.HostAddress = U64(32, -4096)
  /\ dma.call.NumberOfBytes = NumberOfBytes
  /\ dma.call.NullPointer = "none"
  /\ dma.call.HartSatpMode = SATP_MODE_SV39 /\ ~hw.fctl.GXL

\* C21 as stated: the Map call of the scenario with length 0x1000 is forced
\* to remap, and the device address it returns is below 4 GiB - 1 and is not
\* the host address.
C21_RemapForcedStep ==
  (Top = "map_entry" /\ BoundaryScenario(4096) /\ dma'.out.Status = "EFI_SUCCESS") =>
     /\ dma'.out.DeviceAddress # dma.call.HostAddress
     /\ U64Less(dma'.out.DeviceAddress, U64(32, -1))

C21_RemapForced == [][C21_RemapForcedStep]_vars

\* C21 amended: with length 0x1000 the range ends exactly at 4 GiB and the
\* call is not remapped: the device address is the host address and no pages
\* are allocated.  With length 0x2000 the range extends above 4 GiB: the call
\* is remapped, and the pages (whose base is the device address) end at or
\* below 4 GiB - 1.
C21_BoundaryStep ==
  /\ (Top = "map_entry" /\ BoundaryScenario(4096) /\ dma'.out.Status = "EFI_SUCCESS") =>
        /\ dma'.out.DeviceAddress = dma.call.HostAddress
        /\ dma'.pages = {}
  /\ (Top = "map_entry" /\ BoundaryScenario(8192) /\ dma'.out.Status = "EFI_SUCCESS") =>
        /\ dma'.out.DeviceAddress # dma.call.HostAddress
        /\ dma'.pages = {[Base |-> dma'.out.DeviceAddress, Pages |-> 2]}
        /\ U64LessEq(U64Add(dma'.out.DeviceAddress, 8191), U64(32, -1))

C21_Boundary == [][C21_BoundaryStep]_vars

\* C21 witness: the call of the scenario returned the host address
C21_Witness ==
  /\ BoundaryScenario(4096) /\ pc = <<"ep_done">>
  /\ dma.out.Status = "EFI_SUCCESS" /\ dma.out.DeviceAddress = U64(32, -4096)
  /\ dma.pages = {}

\* the effective memoryTop of the call: min(memoryTop, 4 GiB - 1) when the
\* operation is not a 64-bit variant and the range extends above 4 GiB,
\* memoryTop otherwise
EffectiveTop ==
  IF ExtendsAbove4G /\ U64Less(U64(32, -1), MemoryTop) THEN U64(32, -1) ELSE MemoryTop

\* C22: when a Map call remaps, the pages it allocates end at or below the
\* effective memoryTop; the device address returned is the base of those
\* pages, and the MAP_INFO the call returns stores it.
C22_PlacementStep ==
  (WellFormedMap /\ dma'.pages # dma.pages) =>
     /\ dma'.out.Status = "EFI_SUCCESS"
     /\ \E r \in dma'.pages :
          /\ dma'.pages = dma.pages \cup {r}
          /\ U64LessEq(LastByte(r), EffectiveTop)
          /\ dma'.out.DeviceAddress = r.Base
          /\ \E m \in dma'.records \ dma.records :
               /\ m.Address = dma'.out.Mapping
               /\ m.DeviceAddress = r.Base
               /\ m.HostAddress = dma.call.HostAddress

C22_BouncePlacement == [][C22_PlacementStep]_vars

\* C22 witness: a misaligned 32-bit read of a buffer that extends above
\* 4 GiB, hart in SV39, was given bounce pages just below 4 GiB
C22_Witness ==
  /\ dma.call.fn = "IoMmuMap" /\ pc = <<"ep_done">>
  /\ dma.call.Operation = EdkiiIoMmuOperationBusMasterRead
  /\ dma.call.HostAddress = U64(32, 12288) /\ dma.call.NumberOfBytes = 2048
  /\ dma.call.HartSatpMode = SATP_MODE_SV39 /\ ~hw.fctl.GXL
  /\ dma.out.Status = "EFI_SUCCESS" /\ dma.out.DeviceAddress = U64(32, -16384)
  /\ dma.pages = {[Base |-> U64(32, -16384), Pages |-> 1]}
  /\ \E m \in dma.records : m.DeviceAddress = U64(32, -16384)

\* a Map call returns success with a bounce buffer at b
MapRemapsTo(b) ==
  /\ Top = "map_entry"
  /\ dma'.out.Status = "EFI_SUCCESS"
  /\ dma'.out.DeviceAddress = b
  /\ b # dma.call.HostAddress

\* the Unmap call that releases the MAP_INFO m
UnmapOf(m) ==
  /\ pc = <<"ep_done">>
  /\ m \in dma.records /\ m \notin dma'.records

\* C23: with a forced remap, Map of a read operation leaves in the bounce
\* buffer a copy of the host buffer, and Map of any other operation leaves
\* the bounce buffer as the allocator gave it; Unmap of a write operation
\* leaves in the host buffer what the bounce buffer held when Unmap was
\* called, and Unmap of any other operation leaves the host buffer as it was.
\* Map never changes the host buffer.
C23_RoundTripStep ==
  /\ \A b \in PageBases :
       MapRemapsTo(b) =>
          /\ dma'.mem[dma.call.HostAddress] = dma.mem[dma.call.HostAddress]
          /\ IF dma.call.Operation \in {EdkiiIoMmuOperationBusMasterRead,
                                        EdkiiIoMmuOperationBusMasterRead64}
               THEN dma'.mem[b] = dma.mem[dma.call.HostAddress]
               ELSE dma'.mem[b] = dma.mem[b]
  /\ \A m \in dma.records :
       (UnmapOf(m) /\ m.DeviceAddress # m.HostAddress) =>
          /\ dma'.mem[m.DeviceAddress] = dma.mem[m.DeviceAddress]
          /\ IF m.Operation \in {EdkiiIoMmuOperationBusMasterWrite,
                                 EdkiiIoMmuOperationBusMasterWrite64}
               THEN dma'.mem[m.HostAddress] = dma.mem[m.DeviceAddress]
               ELSE dma'.mem[m.HostAddress] = dma.mem[m.HostAddress]

C23_RoundTripRemapped == [][C23_RoundTripStep]_vars

\* C23 witness: the bus master wrote the bounce buffer of a remapped write
\* mapping, and after Unmap the host buffer holds what it wrote
C23_Witness ==
  /\ dma.call.fn = "IoMmuUnmap" /\ dma.out.Status = "EFI_SUCCESS"
  /\ dma.records = {} /\ dma.pages = {}
  /\ \E h \in HostAddresses, b \in PageBases :
       dma.mem[h] = "device data" /\ dma.mem[b] = "device data"

\* (a), (b) and (c) are all false for the call
NoRemapNeeded == ~(EndsAtOrAboveTop \/ ExtendsAbove4G \/ NotPageAligned)

\* the read and write operations (not the common-buffer ones)
ReadWriteOperations ==
  {EdkiiIoMmuOperationBusMasterRead, EdkiiIoMmuOperationBusMasterWrite,
   EdkiiIoMmuOperationBusMasterRead64, EdkiiIoMmuOperationBusMasterWrite64}

\* C24: Map of a read or write operation on a range that needs no remap
\* allocates the MAP_INFO and nothing else: no pages, no copy, memory as it
\* was; Unmap of that mapping releases the MAP_INFO and nothing else: no
\* pages freed, no copy, memory as it was.
C24_IdentityStep ==
  /\ (/\ WellFormedMap /\ dma.call.Operation \in ReadWriteOperations /\ NoRemapNeeded
      /\ dma'.out.Status = "EFI_SUCCESS") =>
        /\ dma'.mem = dma.mem /\ dma'.pages = dma.pages /\ heap' = heap
        /\ dma'.records = dma.records \cup {MapInfoRecord(dma'.out.Mapping, dma.call, dma.call.HostAddress)}
        /\ dma'.out.Mapping \notin {r.Address : r \in dma.records}
  /\ \A m \in dma.records :
       (UnmapOf(m) /\ m.Operation \in ReadWriteOperations /\ m.DeviceAddress = m.HostAddress) =>
          /\ dma'.out.Status = "EFI_SUCCESS"
          /\ dma'.mem = dma.mem /\ dma'.pages = dma.pages /\ heap' = heap
          /\ dma'.out.freed = {}
          /\ dma'.records = dma.records \ {m}

C24_RoundTripIdentity == [][C24_IdentityStep]_vars

\* C24 witness: a write mapping that needed no remap was unmapped after the
\* bus master wrote the buffer: the buffer holds what the bus master wrote,
\* no pages were ever allocated, no MAP_INFO is left
C24_Witness ==
  /\ dma.call.fn = "IoMmuUnmap" /\ dma.out.Status = "EFI_SUCCESS"
  /\ dma.records = {} /\ dma.pages = {} /\ dma.out.freed = {}
  /\ dma.mem[U64(0, 4096)] = "device data"
  /\ \A b \in PageBases : dma.mem[b] = "stale"

\* an Unmap call returns
UnmapReturns ==
  /\ pc = <<"ep_done">>
  /\ dma'.call.fn = "IoMmuUnmap"
  /\ <<dma'.call, dma'.out, dma'.records>> # <<dma.call, dma.out, dma.records>>

\* the page range of the bounce buffer of MAP_INFO m
BounceRange(m) == [Base |-> m.DeviceAddress, Pages |-> EfiSizeToPages(m.NumberOfBytes)]

\* C25: Unmap with Mapping NULL, or with a Mapping that is no MAP_INFO the
\* driver returned (it does not carry the signature), returns
\* EFI_INVALID_PARAMETER and frees and copies nothing.  Unmap of a MAP_INFO
\* returns EFI_SUCCESS and releases the MAP_INFO; it frees pages, those of
\* the bounce buffer, if and only if the record's device address differs
\* from its host address.
C25_UnmapStep ==
  UnmapReturns =>
    IF dma'.call.Mapping \notin {r.Address : r \in dma.records}
      THEN /\ dma'.out.Status = "EFI_INVALID_PARAMETER"
           /\ dma'.records = dma.records /\ dma'.pages = dma.pages
           /\ dma'.mem = dma.mem /\ dma'.out.freed = {}
      ELSE \E m \in dma.records :
             /\ m.Address = dma'.call.Mapping
             /\ dma'.out.Status = "EFI_SUCCESS"
             /\ dma'.records = dma.records \ {m}
             /\ IF m.DeviceAddress # m.HostAddress
                  THEN /\ dma'.out.freed = {BounceRange(m)}
                       /\ BounceRange(m) \in dma.pages
                       /\ dma'.pages = dma.pages \ {BounceRange(m)}
                  ELSE dma'.out.freed = {} /\ dma'.pages = dma.pages

C26_MalformedStep ==
  (/\ Top = "map_entry"
   /\ \/ dma.call.Operation >= EdkiiIoMmuOperationMaximum
      \/ dma.call.HostAddress = U64(0, NULL)
      \/ dma.call.NullPointer \in {"NumberOfBytes", "DeviceAddress", "Mapping"}) =>
     /\ pc' = Tail(pc)
     /\ dma' = [dma EXCEPT !.out.Status = "EFI_INVALID_PARAMETER"]
     /\ dma'.out.written = {} /\ dma'.records = {} /\ dma'.pages = {}
     /\ mmio' = mmio /\ hw' = hw /\ heap' = heap /\ Ctx' = Ctx

C26_MalformedRejected == [][C26_MalformedStep]_vars

\* C26 witness: a Map call with a NULL Mapping pointer, for a range that
\* would need a remap, was refused; the last register access is still the
\* last one of initialisation
C26_Witness ==
  /\ dma.call.fn = "IoMmuMap" /\ pc = <<"ep_done">>
  /\ dma.call.NullPointer = "Mapping"
  /\ dma.call.Operation = EdkiiIoMmuOperationBusMasterWrite
  /\ dma.call.HostAddress = U64(32, 12288)
  /\ dma.out.Status = "EFI_INVALID_PARAMETER" /\ dma.out.written = {}
  /\ dma.records = {} /\ dma.pages = {}
  /\ mmio = InitialiseTrace

\* the statuses of a Map call that ran out of memory
ExhaustionStatuses == {"EFI_OUT_OF_RESOURCES", "EFI_NOT_FOUND"}

\* C27: a well-formed Map call that is not refused returns success or fails
\* for lack of memory; when it fails (AllocatePool gave no MAP_INFO, or
\* AllocatePages gave no pages) *NumberOfBytes is 0 and is the only output
\* written, and the call leaves no MAP_INFO and no pages behind; a call that
\* needs no remap can fail with EFI_OUT_OF_RESOURCES only.
C27_ExhaustionStep ==
  (WellFormedMap /\ dma'.out.Status \notin {"EFI_SUCCESS", "EFI_UNSUPPORTED"}) =>
     /\ pc' = Tail(pc)
     /\ dma'.out.Status \in ExhaustionStatuses
     /\ dma'.out.NumberOfBytes = 0
     /\ dma'.out.written = {"NumberOfBytes"}
     /\ dma'.records = dma.records /\ dma'.pages = dma.pages
     /\ dma'.mem = dma.mem /\ heap' = heap
     /\ NoRemapNeeded => dma'.out.Status = "EFI_OUT_OF_RESOURCES"

C27_NoPartialState == [][C27_ExhaustionStep]_vars

\* C27 witness: a Map call that needed bounce pages got none: it returned
\* EFI_NOT_FOUND with *NumberOfBytes zeroed, no MAP_INFO and no pages
C27_Witness ==
  /\ dma.call.fn = "IoMmuMap" /\ pc = <<"ep_done">>
  /\ dma.call.Operation = EdkiiIoMmuOperationBusMasterWrite64
  /\ dma.call.NumberOfBytes = 2048
  /\ dma.out.Status = "EFI_NOT_FOUND"
  /\ dma.out.NumberOfBytes = 0 /\ dma.out.written = {"NumberOfBytes"}
  /\ dma.records = {} /\ dma.pages = {}

\* the memory kind of the call is neither boot-services nor runtime-services data
IllegalMemoryKind ==
  dma.call.MemoryType \notin {EfiBootServicesData, EfiRuntimeServicesData}

\* C28: an AllocateBuffer call with an illegal memory kind returns
\* EFI_INVALID_PARAMETER; with a legal kind and an attribute bit that is
\* invalid for allocation it returns EFI_UNSUPPORTED; with a legal kind,
\* valid attributes and a NULL HostAddress it returns EFI_INVALID_PARAMETER;
\* in each case the call returns without allocating pages, without writing
\* through HostAddress and without reading a register.
C28_ValidationStep ==
  (/\ Top = "allocate_buffer_entry"
   /\ IllegalMemoryKind \/ dma.call.InvalidAttribute \/ dma.call.HostAddressIsNull) =>
     /\ pc' = Tail(pc)
     /\ IllegalMemoryKind => dma'.out.Status = "EFI_INVALID_PARAMETER"
     /\ (~IllegalMemoryKind /\ dma.call.InvalidAttribute) =>
           dma'.out.Status = "EFI_UNSUPPORTED"
     /\ (~IllegalMemoryKind /\ ~dma.call.InvalidAttribute) =>
           dma'.out.Status = "EFI_INVALID_PARAMETER"
     /\ dma'.out.written = {} /\ dma'.out.DeviceAddress = dma.out.DeviceAddress
     /\ dma'.pages = dma.pages /\ dma'.records = dma.records /\ dma'.mem = dma.mem
     /\ mmio' = mmio /\ heap' = heap

C28_AllocateBufferValidation == [][C28_ValidationStep]_vars

\* C28 witness: a call with a legal memory kind, a non-NULL HostAddress and an
\* attribute bit that is invalid for allocation returned EFI_UNSUPPORTED and
\* holds no pages
C28_Witness ==
  /\ dma.call.fn = "IoMmuAllocateBuffer" /\ pc = <<"ep_done">>
  /\ dma.call.MemoryType = EfiRuntimeServicesData
  /\ dma.call.InvalidAttribute /\ ~dma.call.HostAddressIsNull
  /\ dma.out.Status = "EFI_UNSUPPORTED"
  /\ dma.out.written = {} /\ dma.pages = {}

\* an AllocateBuffer call whose arguments pass validation, on a device for
\* which memoryTop is defined
WellFormedAllocateBuffer ==
  /\ Top = "allocate_buffer_entry"
  /\ ~IllegalMemoryKind /\ ~dma.call.InvalidAttribute /\ ~dma.call.HostAddressIsNull
  /\ hw.fctl.GXL \/ dma.call.HartSatpMode \in {SATP_MODE_SV39, SATP_MODE_SV48, SATP_MODE_SV57}

\* C29: an AllocateBuffer call that passes validation either succeeds, and
\* then *HostAddress is the base of the one page range it allocated, which
\* ends at or below memoryTop and, unless the call carries the
\* dual-address-cycle attribute, at or below 4 GiB - 1; or it returns the
\* error of the page allocation, allocates nothing and leaves *HostAddress
\* unwritten.
C29_CeilingStep ==
  WellFormedAllocateBuffer =>
     /\ pc' = Tail(pc)
     /\ \/ /\ dma'.out.Status = "EFI_SUCCESS"
           /\ dma'.out.written = {"HostAddress"}
           /\ \E r \in dma'.pages \ dma.pages :
                /\ dma'.pages = dma.pages \cup {r}
                /\ r.Base = dma'.out.DeviceAddress /\ r.Pages = dma.call.Pages
                /\ U64LessEq(LastByte(r), MemoryTop)
                /\ ~dma.call.DualAddressCycle => U64LessEq(LastByte(r), U64(32, -1))
        \/ /\ dma'.out.Status \in AllocatePagesErrors
           /\ dma'.out.written = {} /\ dma'.out.DeviceAddress = dma.out.DeviceAddress
           /\ dma'.pages = dma.pages

C29_AllocateBufferCeiling == [][C29_CeilingStep]_vars

\* C29 witness: with GXL clear and the hart in SV48, a call carrying the
\* dual-address-cycle attribute was given two pages above 4 GiB
C29_Witness ==
  /\ dma.call.fn = "IoMmuAllocateBuffer" /\ pc = <<"ep_done">>
  /\ ~hw.fctl.GXL /\ dma.call.HartSatpMode = SATP_MODE_SV48
  /\ dma.call.DualAddressCycle /\ dma.call.Pages = 2
  /\ dma.out.Status = "EFI_SUCCESS" /\ dma.out.written = {"HostAddress"}
  /\ dma.out.DeviceAddress = U64(39, -16384)
  /\ dma.pages = {[Base |-> U64(39, -16384), Pages |-> 2]}

\* the inputs of the IoMmuSetAttribute call pass validation: a handle that is
\* not NULL and has a device path for a hardware PCI node, a Mapping whose
\* MAP_INFO carries the signature, access read|write, a PCI location
SetAttributeInputsValid(call) ==
  /\ ~call.DeviceHandle.IsNull /\ call.DeviceHandle.HasDevicePath
  /\ call.DeviceHandle.Type = HARDWARE_DEVICE_PATH /\ call.DeviceHandle.SubType = HW_PCI_DP
  /\ \E r \in dma.records : r.Address = call.Mapping /\ r.Signature = "DMAP"
  /\ call.IoMmuAccess = EDKII_IOMMU_ACCESS_READ + EDKII_IOMMU_ACCESS_WRITE
  /\ call.DeviceHandle.PciIo = "located"

\* C30: an IoMmuSetAttribute call whose inputs pass validation returns
\* EFI_DEVICE_ERROR to its caller; no IoMmuSetAttribute call returns
\* EFI_SUCCESS, and none accesses a register, changes a MAP_INFO, the pages
\* held, memory or the driver context.
C30_StubStep ==
  (pc = <<"ep_done">> /\ dma'.call.fn = "IoMmuSetAttribute") =>
     /\ SetAttributeInputsValid(dma'.call) =>
          (pc' = pc /\ dma'.out.Status = "EFI_DEVICE_ERROR")
     /\ dma'.out.Status # "EFI_SUCCESS"
     /\ mmio' = mmio /\ hw' = hw /\ Ctx' = Ctx
     /\ dma'.records = dma.records /\ dma'.pages = dma.pages /\ dma'.mem = dma.mem

C30_ValidatingStub == [][C30_StubStep]_vars

\* the part of C30 that holds: no IoMmuSetAttribute call returns EFI_SUCCESS
\* or touches a register, a MAP_INFO, the pages, memory or the driver
\* context; a call whose inputs pass validation stops at the assertion, and
\* a call that returns returns an error of the validation
C30_NoEffectStep ==
  (pc = <<"ep_done">> /\ dma'.call.fn = "IoMmuSetAttribute") =>
     /\ \/ pc' = <<"aborted">> /\ dma'.out.Status = "none"
        \/ /\ pc' = pc /\ ~SetAttributeInputsValid(dma'.call)
           /\ dma'.out.Status \in {"EFI_INVALID_PARAMETER", "EFI_UNSUPPORTED"}
     /\ mmio' = mmio /\ hw' = hw /\ Ctx' = Ctx
     /\ dma'.records = dma.records /\ dma'.pages = dma.pages /\ dma'.mem = dma.mem

C30_NoEffect == [][C30_NoEffectStep]_vars

\* the call reaches the device-kind test: a handle that is not NULL and has a
\* device path, and a Mapping whose MAP_INFO carries the signature
ReachesDeviceKindTest(call) ==
  /\ ~call.DeviceHandle.IsNull /\ call.DeviceHandle.HasDevicePath
  /\ \E r \in dma.records : r.Address = call.Mapping /\ r.Signature = "DMAP"

\* the device-path node of the handle is a hardware PCI node
IsHardwarePciNode(DeviceHandle) ==
  DeviceHandle.Type = HARDWARE_DEVICE_PATH /\ DeviceHandle.SubType = HW_PCI_DP

\* C31: an IoMmuSetAttribute call that reaches the device-kind test with a
\* device-path node that is not a hardware PCI node (Type is not
\* HARDWARE_DEVICE_PATH or SubType is not HW_PCI_DP) returns EFI_UNSUPPORTED,
\* whatever the access mask and whatever the handle answers about its PCI
\* location.
C31_DeviceKindStep ==
  (/\ pc = <<"ep_done">> /\ dma'.call.fn = "IoMmuSetAttribute"
   /\ ReachesDeviceKindTest(dma'.call)
   /\ ~IsHardwarePciNode(dma'.call.DeviceHandle)) =>
     (pc' = pc /\ dma'.out.Status = "EFI_UNSUPPORTED")

C31_DeviceKind == [][C31_DeviceKindStep]_vars

\* the part of C31 that holds: a node that is neither of Type
\* HARDWARE_DEVICE_PATH nor of SubType HW_PCI_DP is refused with
\* EFI_UNSUPPORTED whatever the access mask and the PCI location
C31_NeitherStep ==
  (/\ pc = <<"ep_done">> /\ dma'.call.fn = "IoMmuSetAttribute"
   /\ ReachesDeviceKindTest(dma'.call)
   /\ dma'.call.DeviceHandle.Type # HARDWARE_DEVICE_PATH
   /\ dma'.call.DeviceHandle.SubType # HW_PCI_DP) =>
     (pc' = pc /\ dma'.out.Status = "EFI_UNSUPPORTED")

C31_Neither == [][C31_NeitherStep]_vars

\* the powers of two a 32-bit entry count can be
PowersOfTwo == {2^k : k \in 0..30}

\* C32: for every configured entry count that is zero or not a power of two
\* AllocateQueue stops at an assertion: it allocates no buffer and writes no
\* register.
C32_RejectStep ==
  (Top = "aq_program" /\ loc.Entries \notin PowersOfTwo) =>
     /\ pc' = <<"aborted">>
     /\ mmio' = mmio /\ heap' = heap /\ Ctx' = Ctx /\ hw' = hw

C32_OddStep ==
  (Top = "aq_program" /\ (loc.Entries = 0 \/ loc.Entries % 2 = 1)) =>
     /\ pc' = <<"aborted">>
     /\ mmio' = mmio /\ heap' = heap /\ Ctx' = Ctx /\ hw' = hw

C32_ZeroOrOdd == [][C32_OddStep]_vars

\* the queues of the driver context
QueueNames == {"CommandQueue", "FaultQueue", "PageRequestQueue"}

\* the content of the page with page number ppn
PageContent(ppn) == dma.mem[U64(0, ppn * SIZE_4KB)]

\* the context-table root is zeroed before the first DDTP write: once DDTP
\* has been written the root page holds zeroes
C33_RootZeroed ==
  Count("W64", R_RISCV_IOMMU_DDTP) > 0 =>
     dma.mem[U64(0, Ctx.DeviceContext.Buffer)] = "zero"

\* C33: a queue base register that has been programmed holds the page number
\* of a buffer filled with zeroes, and once DDTP has been written the root
\* page of the context table is filled with zeroes.
C33_ZeroedBeforeProgrammed ==
  /\ \A q \in QueueNames :
       hw[QueueRegs(q).b].PPN # 0 => PageContent(hw[QueueRegs(q).b].PPN) = "zero"
  /\ C33_RootZeroed

\* C34: whenever DDTP holds a table mode after a write of the driver, its PPN
\* field is the page number of the allocated root page, which is neither zero
\* nor indeterminate, and that page is filled with zeroes.
C34_ModeWithRoot ==
  (Count("W64", R_RISCV_IOMMU_DDTP) > 0 /\ hw.ddtp.iommu_mode \in TableModes) =>
     /\ hw.ddtp.PPN \notin {0, Indeterminate}
     /\ hw.ddtp.PPN = Ppn(Ctx.DeviceContext.Buffer)
     /\ PageContent(hw.ddtp.PPN) = "zero"

\* the part of C34 that holds: the second DDTP write, made after the
\* read-back, carries the table mode together with the page number of the
\* zeroed root
C34_SecondWrite ==
  Count("W64", R_RISCV_IOMMU_DDTP) = 2 =>
     /\ hw.ddtp.iommu_mode \in TableModes
     /\ hw.ddtp.PPN = Ppn(Ctx.DeviceContext.Buffer) /\ hw.ddtp.PPN # 0
     /\ PageContent(hw.ddtp.PPN) = "zero"

\* a Map call for an operation that is not a 64-bit variant returns success
Map32Succeeds ==
  /\ WellFormedMap /\ ~Is64Bit(dma.call.Operation)
  /\ dma'.out.Status = "EFI_SUCCESS"

\* the device range the call returns ends at or below 4 GiB
DeviceRangeBelow4G ==
  U64LessEq(U64Add(dma'.out.DeviceAddress, dma.call.NumberOfBytes), SIZE_4GB)

\* C35: every successful Map of an operation that is not a 64-bit variant
\* returns a device range that lies below 4 GiB (deviceAddress + length <=
\* 2^32), whichever check made the call remap.
C35_Below4GStep == Map32Succeeds => DeviceRangeBelow4G

C35_DeviceRangeBelow4G == [][C35_Below4GStep]_vars

\* the part of C35 that holds: the device range lies below 4 GiB when the
\* buffer is page aligned, or extends above 4 GiB, or FCTL.GXL is set
C35_AlignedStep ==
  (Map32Succeeds /\ (~NotPageAligned \/ ExtendsAbove4G \/ hw.fctl.GXL)) => DeviceRangeBelow4G

C35_AlignedBelow4G == [][C35_AlignedStep]_vars

\* the call is made with the SATP mode the hart had when the driver was
\* initialised: initialisation accepted that mode and wrote the GXL bit for it
ModeAsInitialised ==
  /\ AtProtocolEntry
  /\ ~PagingModeUnsupported(dma.call.HartSatpMode, hw.caps)
  /\ hw.fctl.GXL = GxlFor(dma.call.HartSatpMode)

\* C36: a Map or AllocateBuffer call made after a successful initialisation,
\* with the hart in the SATP mode initialisation accepted (Bare included),
\* does not end at the assertion of RiscVGetIoMmuMemoryTop.
C36_NoAbortStep == ModeAsInitialised => Head(pc') # "aborted"

C36_ModesRecognised == [][C36_NoAbortStep]_vars

\* the part of C36 that holds: with the hart in SV32, SV39, SV48 or SV57 as at
\* initialisation no call ends at the assertion
C36_PagedStep ==
  (/\ ModeAsInitialised
   /\ dma.call.HartSatpMode \in {SATP_MODE_SV32, SATP_MODE_SV39, SATP_MODE_SV48,
                                 SATP_MODE_SV57}) => Head(pc') # "aborted"

C36_PagedModesRecognised == [][C36_PagedStep]_vars

\* discovery has recorded a PCI-attached IOMMU and PCI enumeration is complete
PciIoMmuAwaited ==
  /\ Ctx.DriverState = STATE_DETECTED /\ Ctx.IoMmuIsPciDevice
  /\ pciEnumComplete

\* the driver has taken the device up (IoMmuCommonInitialise has run for it),
\* or the notify function has looked for an IOMMU-class PCI device and
\* finished, or an assertion has stopped the driver
PciIoMmuSettled ==
  \/ Ctx.DriverState >= STATE_INITIALISED
  \/ event = "closed"
  \/ pc = <<"aborted">>

\* C37: once discovery has recorded a PCI-attached IOMMU, from the device
\* tree or from a RIMT node, and PCI enumeration is complete, the notify
\* function eventually runs: the driver adopts the BAR of the IOMMU-class
\* device and initialises it, or finds no such device.
C37_PciIoMmuAdopted == PciIoMmuAwaited ~> PciIoMmuSettled

\* the part of C37 that holds: the same for a PCI-attached IOMMU recorded
\* from the device tree, where the notify function is registered
C37_DeviceTreeAdopted == (PciIoMmuAwaited /\ event = "registered") ~> PciIoMmuSettled

\* IoMmuCommonInitialise returns in this step (from its early return or after
\* InitialiseRiscVIoMmu)
CommonInitialiseReturns == Top \in {"ci_entry", "ci_return"} /\ pc' = Tail(pc)

\* C38: when IoMmuCommonInitialise returns EFI_SUCCESS the IOMMU protocol is
\* installed; a call made after a call that failed does not return
\* EFI_SUCCESS.
C38_SuccessStep ==
  (CommonInitialiseReturns /\ Status' = "EFI_SUCCESS") => installed' > 0

C38_SuccessMeansInstalled == [][C38_SuccessStep]_vars

\* the part of C38 that holds: a call that runs InitialiseRiscVIoMmu returns
\* EFI_SUCCESS only with the protocol installed by that call
C38_WorkerStep ==
  (Top = "ci_return" /\ Status' = "EFI_SUCCESS") => installed' = installed + 1

C38_WorkerInstalls == [][C38_WorkerStep]_vars

\* InitialiseRiscVIoMmu has returned EFI_UNSUPPORTED to IoMmuCommonInitialise
InitialiseFailed == Top = "ci_return" /\ loc.InitStatus = "EFI_UNSUPPORTED"

\* no queue has its enable bit set and DDTP has not been written
QueuesOffAndNoTableWrite ==
  /\ ~hw.cqcsr.qen /\ ~hw.fqcsr.qen /\ ~hw.pqcsr.qen
  /\ Count("W64", R_RISCV_IOMMU_DDTP) = 0

\* C39: when InitialiseRiscVIoMmu returns EFI_UNSUPPORTED, whichever step
\* failed, no queue has its enable bit set and no DDTP write has been made.
C39_FailureLeavesReset == InitialiseFailed => QueuesOffAndNoTableWrite

\* the part of C39 that holds: a failure before ProgramContextRoot (version,
\* endianness, paging mode), where the root was never allocated, leaves the
\* queues off and DDTP unwritten
C39_EarlyFailureLeavesReset ==
  (InitialiseFailed /\ Ctx.DeviceContext.Buffer = NULL) => QueuesOffAndNoTableWrite

\* the outstanding mappings that use a bounce buffer
RemappedRecords == {m \in dma.records : m.DeviceAddress # m.HostAddress}

\* the pages held are exactly the bounce ranges of the outstanding remapped
\* mappings, one range each, and the MAP_INFOs are at distinct addresses
PagesMatchRecords ==
  /\ dma.pages = {BounceRange(m) : m \in RemappedRecords}
  /\ Cardinality(dma.pages) = Cardinality(RemappedRecords)
  /\ \A m, n \in dma.records : m.Address = n.Address => m = n
  /\ \A r \in dma.pages : \A q \in dma.pages \ {r} : ~Overlap(r.Base, r.Pages, q)

\* one Map or Unmap call: a successful Map adds one MAP_INFO at the handle it
\* returns, and one bounce range if it remaps; a failed Map adds nothing;
\* Unmap of a handle removes that MAP_INFO and frees its bounce range, with
\* the page count it was allocated with, and nothing else
MapUnmapStep ==
  /\ (Top = "map_entry" /\ dma'.out.Status = "EFI_SUCCESS") =>
        \E m \in dma'.records \ dma.records :
           /\ dma'.records = dma.records \cup {m}
           /\ m.Address = dma'.out.Mapping
           /\ dma'.pages = IF m.DeviceAddress # m.HostAddress
                             THEN dma.pages \cup {BounceRange(m)} ELSE dma.pages
  /\ (Top = "map_entry" /\ dma'.out.Status # "EFI_SUCCESS") =>
        (dma'.records = dma.records /\ dma'.pages = dma.pages)
  /\ \A m \in dma.records : UnmapOf(m) =>
        /\ dma'.records = dma.records \ {m}
        /\ dma'.pages = IF m.DeviceAddress # m.HostAddress
                          THEN dma.pages \ {BounceRange(m)} ELSE dma.pages
        /\ dma'.out.freed = dma.pages \ dma'.pages

\* C40: over any sequence of Map and Unmap calls in which every handle is
\* unmapped at most once, the MAP_INFOs and page ranges held are at every
\* point those of the outstanding mappings: one MAP_INFO each, one bounce
\* range per remapped mapping, freed with the page count it was allocated
\* with; nothing is held once every handle has been unmapped, in whatever
\* order the handles are unmapped.
C40_NoLeakNoDoubleFree ==
  /\ PagesMatchRecords
  /\ [][/\ MapUnmapStep
        /\ PagesMatchRecords'
        /\ dma'.records = {} => dma'.pages = {}]_vars

\* C40 witness: two mappings were outstanding, both remapped, and the one
\* mapped second (at the second MAP_INFO address taken) has been unmapped
\* first: the first is still held with its two pages
C40_Witness ==
  /\ pc = <<"ep_done">> /\ dma.call.fn = "IoMmuUnmap" /\ dma.out.Status = "EFI_SUCCESS"
  /\ dma.call.Mapping = U64(0, 40960)
  /\ dma.out.freed = {[Base |-> U64(32, 1048576), Pages |-> 2]}
  /\ dma.records # {} /\ \A m \in dma.records : m.Address = U64(0, 32768)
  /\ dma.pages = {[Base |-> U64(0, 1048576), Pages |-> 2]}

====
